---- MODULE Spec2Model ----
(***************************************************************************)
(* A model of the memory store of anelcanto/recall: MemoryStore and        *)
(* LRUCache (src/memory_api/store.py), OllamaClient                        *)
(* (src/memory_api/embeddings.py) and the HTTP handlers                    *)
(* (src/memory_api/main.py).                                               *)
(*                                                                         *)
(* The server is one asyncio event loop: a coroutine runs without          *)
(* interruption from one await that really suspends (an HTTP request to    *)
(* the embedder, an RPC to the vector store, a wait for a held mutex) to   *)
(* the next.  One action of the model is one such uninterrupted stretch.   *)
(* The vector store and the embedder are the environment: an RPC either    *)
(* answers from the state of the collection or fails with a transport      *)
(* error.                                                                  *)
(***************************************************************************)
EXTENDS Integers, Sequences, FiniteSets, TLC

\* ------------------------------------------------------------------ bounds
\* Request handlers in flight at the same time, and the number of timestamps
\* _now_iso hands out (one per write), in Spec.
NumClients == 2
MaxWrites == 3
\* The same two bounds in SpecRace.
NumWorkers == 3
MaxClock == 4
\* Capacity of the lock table.  The program constructs LRUCache(maxsize=1000);
\* the model scales the capacity down so that eviction happens.
maxsize == 1

Workers == 1 .. (IF NumWorkers > NumClients THEN NumWorkers ELSE NumClients)
Clients == 1 .. NumClients
Racers == 1 .. NumWorkers
\* Lock objects are named by numbers; a number is reused once no table entry
\* and no task refers to the object (it is garbage then).
LockIds == 1 .. (NumWorkers + NumClients + maxsize + 1)

None == "None"
Keys == {"k1", "k2"}

\* ------------------------------------------------------- program constants
default_embed_path == "/api/embed"
Paths == {"/api/embed", "/api/embeddings"}
embed_model == "nomic-embed-text"
\* Length of the vectors the embedding service answers with.
EmbedDim == 768
max_text_length == 8000

\* --------------------------------------------------------------- identity
\* uuid.uuid5(APP_NAMESPACE, name) is a function of the name; uuid.uuid4() is
\* a fresh value on every call, named here by the number of the call.  The two
\* differ in the version field of the UUID.
uuid5(name) == <<"uuid5", name>>
uuid4(n) == <<"uuid4", <<"random", n>>>>
MetaId == uuid5(<<"__meta__">>)
KeyedId(dedupe_key) == uuid5(<<"v1:", dedupe_key>>)

\* The request bodies the clients send (MemoryCreate without dedupe_key).
\* A text is named by a word and has a length: len(text) is all the program
\* computes from it.
Str(word, n) == [s |-> word, len |-> n]
NoInput == [text |-> Str("", 0), tags |-> <<>>, source |-> "", external_id |-> None]
Inputs ==
  { [text |-> Str("First", 5), tags |-> <<"a">>, source |-> "test", external_id |-> None],
    [text |-> Str("Second", 6), tags |-> <<>>, source |-> "cli", external_id |-> "x1"] }

\* ------------------------------------------------------------ cursor codec
\* JSON values: the offsets the engine hands out and what a client may put in
\* their place.
JNull == [t |-> "null"]
JInt(n) == [t |-> "int", v |-> n]
JFloat(n) == [t |-> "float", v |-> n]
JStr(s) == [t |-> "str", v |-> <<s>>, ascii |-> TRUE]
JStrNonAscii(s) == [t |-> "str", v |-> <<s>>, ascii |-> FALSE]

RECURSIVE Digits(_)
\* The decimal digits of a natural number, as str(n) writes them.
Digits(n) == IF n < 10 THEN <<n>> ELSE Append(Digits(n \div 10), n % 10)

RECURSIVE Number(_)
\* The number a sequence of decimal digits reads as, as int() reads them.
Number(ds) ==
  IF ds = << >> THEN 0 ELSE 10 * Number(SubSeq(ds, 1, Len(ds) - 1)) + ds[Len(ds)]

\* The text json.dumps writes for a value, as a sequence of lexemes.
DumpValue(v) ==
  CASE v.t = "null" -> <<[k |-> "null"]>>
    [] v.t = "int" -> <<[k |-> "num", digits |-> Digits(v.v), frac |-> FALSE]>>
    [] v.t = "float" -> <<[k |-> "num", digits |-> Digits(v.v), frac |-> TRUE]>>
    [] v.t = "str" -> <<[k |-> "str", chars |-> v.v, ascii |-> v.ascii]>>

\* The value json.loads reads from one lexeme.
LoadValue(tok) ==
  CASE tok.k = "null" -> JNull
    [] tok.k = "num" -> IF tok.frac THEN JFloat(Number(tok.digits))
                        ELSE JInt(Number(tok.digits))
    [] tok.k = "str" -> [t |-> "str", v |-> tok.chars, ascii |-> tok.ascii]

Punct(c) == [k |-> "punct", c |-> c]

RECURSIVE DumpPairs(_)
DumpPairs(pairs) ==
  IF pairs = << >> THEN << >>
  ELSE <<[k |-> "str", chars |-> pairs[1][1], ascii |-> TRUE], Punct(":")>>
       \o DumpValue(pairs[1][2])
       \o (IF Len(pairs) > 1 THEN <<Punct(",")>> ELSE << >>)
       \o DumpPairs(Tail(pairs))

\* json.dumps of a dict, given as its <<key, value>> pairs in insertion order.
json_dumps(pairs) == <<Punct("{")>> \o DumpPairs(pairs) \o <<Punct("}")>>

IsValueTok(tok) == tok.k \in {"null", "num", "str"}

Dict(pairs) == [kind |-> "dict", pairs |-> pairs]
NotJson == [kind |-> "error", pairs |-> << >>]
NotDict == [kind |-> "other", pairs |-> << >>]

RECURSIVE LoadPairs(_, _)
\* The members of an object, read from the lexemes after "{": the dict (a later
\* key replaces an earlier one), or NotJson.
LoadPairs(toks, obj) ==
  IF Len(toks) < 4 THEN NotJson
  ELSE IF ~(toks[1].k = "str" /\ toks[2] = Punct(":") /\ IsValueTok(toks[3]))
  THEN NotJson
  ELSE LET kept == SelectSeq(obj, LAMBDA pr : pr[1] # toks[1].chars)
           obj2 == Append(kept, <<toks[1].chars, LoadValue(toks[3])>>)
       IN IF toks[4] = Punct("}")
          THEN (IF Len(toks) = 4 THEN Dict(obj2) ELSE NotJson)
          ELSE IF toks[4] = Punct(",") THEN LoadPairs(SubSeq(toks, 5, Len(toks)), obj2)
          ELSE NotJson

\* json.loads: the dict a text reads as, a JSON value that is no dict, or
\* NotJson for a text that is not JSON.
json_loads(toks) ==
  IF toks = << >> THEN NotJson
  ELSE IF toks[1] = Punct("{")
  THEN (IF Len(toks) = 2 /\ toks[2] = Punct("}") THEN Dict(<< >>)
        ELSE LoadPairs(Tail(toks), << >>))
  ELSE IF Len(toks) = 1 /\ IsValueTok(toks[1]) THEN NotDict
  ELSE NotJson

HasKey(obj, key) == \E i \in DOMAIN obj : obj[i][1] = key
Lookup(obj, key) == (CHOOSE pr \in {obj[i] : i \in DOMAIN obj} : pr[1] = key)[2]

\* hmac.new(secret, data, sha256).hexdigest(): a string of 64 hexadecimal
\* digits that names the secret and the data (no two pairs share a digest).
HmacHex(secret, data) == [t |-> "str", v |-> <<"hmac-sha256", secret, data>>, ascii |-> TRUE]

\* base64.urlsafe_b64encode(text.encode()).decode(), and the decoding of a
\* cursor string: a cursor that is no base64 of a UTF-8 text does not decode.
B64Encode(text) == [b64 |-> TRUE, text |-> text]
B64Decode(cursor) == [ok |-> cursor.b64, text |-> cursor.text]
NotBase64 == [b64 |-> FALSE, text |-> << >>]

\* MemoryStore._encode_cursor
EncodeCursor(secret, offset) ==
  LET data == json_dumps(<< <<"offset", offset>> >>)
      sig == HmacHex(secret, data)
  IN B64Encode(json_dumps(<< <<"offset", offset>>, <<"qh", sig>> >>))

\* hmac.compare_digest(a, b): both must be ASCII strings, or it raises TypeError.
CompareDigest(a, b) ==
  IF a.t = "str" /\ a.ascii /\ b.t = "str" /\ b.ascii
  THEN (IF a = b THEN "equal" ELSE "different")
  ELSE "TypeError"

\* MemoryStore._decode_cursor: [kind |-> "ok", offset |-> ...], or the
\* exception raised: "ValueError" (invalid_cursor) or "TypeError".
DecodeCursor(secret, cursor) ==
  LET raw == B64Decode(cursor)
      obj == IF raw.ok THEN json_loads(raw.text) ELSE NotJson
  IN IF obj.kind # "dict"
     THEN [kind |-> "ValueError"]
     ELSE IF ~(HasKey(obj.pairs, "offset") /\ HasKey(obj.pairs, "qh"))
     THEN [kind |-> "ValueError"]
     ELSE LET offset == Lookup(obj.pairs, "offset")
              qh == Lookup(obj.pairs, "qh")
              expected == HmacHex(secret, json_dumps(<< <<"offset", offset>> >>))
              cmp == CompareDigest(qh, expected)
          IN CASE cmp = "TypeError" -> [kind |-> "TypeError"]
               [] cmp = "different" -> [kind |-> "ValueError"]
               [] cmp = "equal" -> [kind |-> "ok", offset |-> offset]

VARIABLES
  \* the vector store (Qdrant)
  collection,      \* does the collection exist
  points,          \* id -> [vector, payload] of the points of the collection
  \* MemoryStore
  cacheVal,        \* _collection_exists_cache: "None", "True" or "False"
  cacheFresh,      \* monotonic() - _collection_exists_cached_at < _collection_cache_ttl
  table,           \* _dedupe_locks._cache: <<[key, lock]>>, oldest first
  locked,          \* lock object -> asyncio.Lock._locked
  waiters,         \* lock object -> asyncio.Lock._waiters, first first
  \* OllamaClient
  working_path,    \* _working_path
  dimension,       \* _dimension (0: None)
  \* the wall clock read by _now_iso
  clock,
  \* the request handlers
  task,            \* worker -> position and locals of its coroutine
  last,            \* the HTTP response sent most recently
  \* history, for stating the claims
  firstNow,        \* key -> earliest timestamp of the committed writes of the
                   \* record now stored under the key (0: no record)
  lastCommit,      \* key -> request body of the latest committed write of that record
  returned,        \* the <<dedupe_key, id>> pairs store_memory has returned
  firstOk,         \* the path of the first embedding request that succeeded
  \* a cursor in the hands of a client
  codec,
  \* settings.api_auth_token ("": no token is configured)
  api_auth_token,
  \* OllamaClient._client is not None (set_client was called)
  client

storeVars == <<collection, points>>
cacheVars == <<cacheVal, cacheFresh>>
lockVars == <<table, locked, waiters>>
embVars == <<working_path, dimension>>
histVars == <<firstNow, lastCommit, returned>>
vars == <<collection, points, cacheVal, cacheFresh, table, locked, waiters,
          working_path, dimension, clock, task, last, firstNow, lastCommit,
          returned, firstOk, codec, api_auth_token, client>>

IdleTask ==
  [op |-> "none", pc |-> "idle", key |-> None, input |-> NoInput, now |-> 0,
   fwa |-> 0, lock |-> 0, woken |-> FALSE, epath |-> None, edet |-> FALSE,
   batch |-> <<>>, idx |-> 0, succeeded |-> 0, failed |-> 0, errors |-> <<>>,
   attempted |-> <<>>, stored |-> {}]
NoResp == [op |-> "none"]
NoCodec == [pc |-> "none"]

\* A fresh process; the collection does not exist yet.
Init ==
  /\ collection = FALSE
  /\ points = << >>
  /\ cacheVal = "None"
  /\ cacheFresh = FALSE
  /\ table = << >>
  /\ locked = [l \in LockIds |-> FALSE]
  /\ waiters = [l \in LockIds |-> << >>]
  /\ working_path = None
  /\ dimension = 0
  /\ clock = 0
  /\ task = [w \in Workers |-> IdleTask]
  /\ last = NoResp
  /\ firstNow = [k \in Keys |-> 0]
  /\ lastCommit = [k \in Keys |-> NoInput]
  /\ returned = {}
  /\ firstOk = None
  /\ codec = NoCodec
  /\ api_auth_token = ""
  /\ client = TRUE

\* --------------------------------------------------------- the lock table
RECURSIVE EvictHeld(_)
\* Not the program: an eviction that drops the oldest entry, held or not.
EvictHeld(t) ==
  IF Len(t) > maxsize THEN EvictHeld(Tail(t)) ELSE t
RECURSIVE Evict(_)
\* The while loop of get_or_create: drop the oldest entry while the table is
\* over capacity; if the oldest entry's lock is held, move it to the end and stop.
Evict(t) ==
  IF Len(t) > maxsize
  THEN IF ~locked[Head(t).lock]
       THEN Evict(Tail(t))
       ELSE Append(Tail(t), Head(t))
  ELSE t

TableKeys(t) == {t[i].key : i \in DOMAIN t}
Without(t, k) == SelectSeq(t, LAMBDA e : e.key # k)
Entry(t, k) == CHOOSE e \in {t[i] : i \in DOMAIN t} : e.key = k
\* Not the program: one mutex for every key.
OneLock == CHOOSE l \in LockIds : \A m \in LockIds : l <= m
\* asyncio.Lock(): an object no one refers to yet.
NewLock ==
  CHOOSE l \in LockIds :
    /\ \A i \in DOMAIN table : table[i].lock # l
    /\ \A w \in Workers : task[w].lock # l
    /\ \A m \in LockIds :
         (m < l) => \/ \E i \in DOMAIN table : table[i].lock = m
                    \/ \E w \in Workers : task[w].lock = m

\* Not the program: a lookup that makes a new mutex also for a key it has.
get_or_create_anew(k) ==
  [table |-> Evict(Append(Without(table, k), [key |-> k, lock |-> NewLock])),
   lock |-> NewLock]
\* LRUCache.get_or_create: [table |-> the table afterwards, lock |-> the lock returned]
get_or_create(k) ==
  IF k \in TableKeys(table)
  THEN [table |-> Append(Without(table, k), Entry(table, k)),
        lock |-> Entry(table, k).lock]
  ELSE [table |-> Evict(Append(table, [key |-> k, lock |-> NewLock])),
        lock |-> NewLock]

\* ------------------------------------------------------------ the embedder
Fallback ==
  IF default_embed_path # "/api/embeddings" THEN "/api/embeddings" ELSE "/api/embed"

\* get_embedding up to its first request: to the pinned path, or else
\* detection starts with the configured path.
StartEmbedding(t, pc) ==
  IF working_path # None
  THEN [t EXCEPT !.pc = pc, !.epath = working_path, !.edet = FALSE]
  ELSE [t EXCEPT !.pc = pc, !.epath = default_embed_path, !.edet = TRUE]

\* ------------------------------------------------------- the existence cache
CacheHit == cacheVal = "True" /\ cacheFresh
Invalidate == cacheVal' = "None" /\ cacheFresh' = FALSE
SetCached == cacheVal' = "True" /\ cacheFresh' = TRUE

\* -------------------------------------------------------------- store_memory
PreNow == {"exists", "probe", "create", "sentinel", "indexes"}
\* The bound on the clock, as a guard of the calls that will read it.
Budget(limit) ==
  clock + Cardinality({w \in Workers : task[w].pc \in PreNow}) < limit

\* store_memory from the return of ensure_collection to its next suspension:
\* read the clock, then either start embedding (no dedupe_key) or look the
\* mutex up and try to take it.
AfterEnsure(w, t) ==
  LET n == clock + 1
      g == get_or_create(t.key)
      l == g.lock
      isFree == ~locked[l] /\ waiters[l] = << >>
  IN /\ clock' = n
     /\ IF t.key = None
        THEN /\ task' = [task EXCEPT
                  ![w] = StartEmbedding([t EXCEPT !.now = n, !.fwa = n], "embed")]
             /\ UNCHANGED lockVars
        ELSE /\ table' = g.table
             /\ IF isFree
                THEN /\ locked' = [locked EXCEPT ![l] = TRUE]
                     /\ UNCHANGED waiters
                     /\ task' = [task EXCEPT
                          ![w] = [t EXCEPT !.now = n, !.fwa = n, !.lock = l,
                                           !.pc = "retrieve"]]
                ELSE /\ waiters' = [waiters EXCEPT ![l] = Append(@, w)]
                     /\ UNCHANGED locked
                     /\ task' = [task EXCEPT
                          ![w] = [t EXCEPT !.now = n, !.fwa = n, !.lock = l,
                                           !.pc = "waiting"]]

\* The call of store_memory up to its first suspension: ensure_collection
\* answers from the cache, or asks the vector store.
CallStore(w, t) ==
  IF CacheHit
  THEN AfterEnsure(w, t)
  ELSE /\ task' = [task EXCEPT ![w] = [t EXCEPT !.pc = "exists"]]
       /\ UNCHANGED <<clock, lockVars>>

\* The coroutine of w ends with result r: leave the async with block if it was
\* entered (release the mutex and wake its first waiter) and answer.
InCS(t) == t.lock # 0 /\ t.pc \in {"retrieve", "embed", "upsert"}

CreateResponse(r) ==
  IF r.ok
  THEN [op |-> "store", status |-> IF r.id_strategy = "random" THEN 201 ELSE 200,
        id |-> r.id, id_strategy |-> r.id_strategy, error |-> None,
        key |-> r.key, existed |-> r.existed]
  ELSE [op |-> "store", status |-> 503, id |-> None, id_strategy |-> None,
        error |-> r.error, key |-> r.key, existed |-> FALSE]

IngestError(r, i) ==
  [index |-> i - 1,
   error |-> IF r.error \in {"embedding_unavailable", "qdrant_unavailable"}
             THEN r.error ELSE "other"]

AfterItem(t, r) ==
  [IdleTask EXCEPT !.op = "ingest", !.pc = "item", !.batch = t.batch,
     !.idx = t.idx + 1,
     !.succeeded = IF r.ok THEN t.succeeded + 1 ELSE t.succeeded,
     !.failed = IF r.ok THEN t.failed ELSE t.failed + 1,
     !.errors = IF r.ok THEN t.errors ELSE Append(t.errors, IngestError(r, t.idx)),
     !.attempted = t.attempted,
     !.stored = IF r.ok THEN t.stored \cup {t.idx} ELSE t.stored]

\* Not the program: a coroutine that ends without leaving the async with block.
FinishHolding(w, r) ==
  LET t == task[w]
  IN /\ task' = [task EXCEPT ![w] = IF t.op = "ingest" THEN AfterItem(t, r) ELSE IdleTask]
     /\ last' = IF t.op = "store" THEN CreateResponse(r) ELSE last
     /\ UNCHANGED <<table, locked, waiters>>

\* Not the program: a release that wakes no waiter.
FinishSilent(w, r) ==
  LET t == task[w]
  IN /\ task' = [task EXCEPT ![w] = IF t.op = "ingest" THEN AfterItem(t, r) ELSE IdleTask]
     /\ locked' = IF InCS(t) THEN [locked EXCEPT ![t.lock] = FALSE] ELSE locked
     /\ last' = IF t.op = "store" THEN CreateResponse(r) ELSE last
     /\ UNCHANGED <<table, waiters>>

Finish(w, r) ==
  LET t == task[w]
      held == InCS(t)
      wake == IF held /\ waiters[t.lock] # << >> THEN {Head(waiters[t.lock])} ELSE {}
  IN /\ task' = [v \in Workers |->
                   IF v = w THEN (IF t.op = "ingest" THEN AfterItem(t, r) ELSE IdleTask)
                   ELSE IF v \in wake THEN [task[v] EXCEPT !.woken = TRUE]
                   ELSE task[v]]
     /\ locked' = IF held THEN [locked EXCEPT ![t.lock] = FALSE] ELSE locked
     /\ last' = IF t.op = "store" THEN CreateResponse(r) ELSE last
     /\ UNCHANGED <<table, waiters>>

Failure(w, err) ==
  Finish(w, [ok |-> FALSE, error |-> err, key |-> task[w].key])

\* The event loop runs a new request in a new task.  Idle workers are
\* interchangeable, so the one with the smallest number takes it.
Accepts(w) ==
  /\ task[w].pc = "idle"
  /\ \A v \in Workers : v < w => task[v].pc # "idle"

\* POST /memory (create_memory) calls store_memory.
StartStore(w, k, in, limit) ==
  /\ Accepts(w)
  /\ Budget(limit)
  /\ CallStore(w, [IdleTask EXCEPT !.op = "store", !.key = k, !.input = in])
  /\ UNCHANGED <<storeVars, cacheVars, embVars, last, histVars, firstOk, codec, api_auth_token, client>>

\* collection_exists: the vector store answers.
ExistsOk(w) ==
  LET t == task[w] IN
  /\ t.pc = "exists"
  /\ IF collection
     THEN /\ SetCached
          /\ AfterEnsure(w, t)
     ELSE /\ cacheVal' = "False"
          /\ cacheFresh' = FALSE
          /\ task' = [task EXCEPT ![w] =
                        IF dimension # 0
                        THEN [t EXCEPT !.pc = "create"]
                        ELSE StartEmbedding(t, "probe")]
          /\ UNCHANGED <<clock, lockVars>>
  /\ UNCHANGED <<storeVars, embVars, last, histVars, firstOk, codec, api_auth_token, client>>

\* collection_exists: the vector store cannot be reached.
ExistsFail(w) ==
  /\ task[w].pc = "exists"
  /\ Invalidate
  /\ Failure(w, "qdrant_unavailable")
  /\ UNCHANGED <<storeVars, embVars, clock, histVars, firstOk, codec, api_auth_token, client>>

\* _try_embed_path answers with a vector.
EmbedOk(w) ==
  LET t == task[w] IN
  /\ t.pc \in {"probe", "embed"}
  /\ working_path' = IF t.edet THEN t.epath ELSE working_path
  /\ dimension' = IF t.pc = "probe" THEN EmbedDim ELSE dimension
  /\ task' = [task EXCEPT ![w] =
        [t EXCEPT !.pc = IF t.pc = "probe" THEN "create" ELSE "upsert",
                  !.epath = None, !.edet = FALSE]]
  /\ firstOk' = IF firstOk = None THEN t.epath ELSE firstOk
  /\ UNCHANGED <<storeVars, cacheVars, lockVars, clock, last, histVars, codec, api_auth_token, client>>

\* _try_embed_path raises EmbeddingUnavailable during detection on the
\* configured path: the loop goes on to the other path.
EmbedRetry(w) ==
  LET t == task[w] IN
  /\ t.pc \in {"probe", "embed"}
  /\ t.edet /\ t.epath = default_embed_path
  /\ task' = [task EXCEPT ![w] = [t EXCEPT !.epath = Fallback]]
  /\ UNCHANGED <<storeVars, cacheVars, lockVars, embVars, clock, last, histVars, firstOk, codec, api_auth_token, client>>

\* _try_embed_path raises EmbeddingUnavailable on the pinned path or on the
\* last path of the detection: get_embedding raises it.
EmbedFail(w) ==
  LET t == task[w] IN
  /\ t.pc \in {"probe", "embed"}
  /\ ~t.edet \/ t.epath = Fallback
  /\ Failure(w, "embedding_unavailable")
  /\ UNCHANGED <<storeVars, cacheVars, embVars, clock, histVars, firstOk, codec, api_auth_token, client>>

\* ensure_collection: create_collection succeeds.
CreateOk(w) ==
  /\ task[w].pc = "create"
  /\ ~collection
  /\ collection' = TRUE
  /\ points' = << >>
  /\ task' = [task EXCEPT ![w].pc = "sentinel"]
  /\ UNCHANGED <<cacheVars, lockVars, embVars, clock, last, histVars, firstOk, codec, api_auth_token, client>>

\* ensure_collection: create_collection fails (the collection exists by now,
\* or the vector store cannot be reached).
CreateFail(w) ==
  /\ task[w].pc = "create"
  /\ Invalidate
  /\ Failure(w, "qdrant_unavailable")
  /\ UNCHANGED <<storeVars, embVars, clock, histVars, firstOk, codec, api_auth_token, client>>

\* Not the program: a sentinel that records no dimension.
SentinelNoDim ==
  [vector |-> [len |-> dimension, zero |-> TRUE],
   payload |-> [schema_version |-> 1, _meta |-> TRUE, model |-> embed_model,
                dim |-> 0]]

Sentinel ==
  [vector |-> [len |-> dimension, zero |-> TRUE],
   payload |-> [schema_version |-> 1, _meta |-> TRUE, model |-> embed_model,
                dim |-> dimension]]

\* ensure_collection: update_collection and the upsert of the sentinel succeed.
SentinelOk(w) ==
  /\ task[w].pc = "sentinel"
  /\ collection
  /\ points' = (MetaId :> Sentinel) @@ points
  /\ task' = [task EXCEPT ![w].pc = "indexes"]
  /\ UNCHANGED <<collection, cacheVars, lockVars, embVars, clock, last, histVars, firstOk, codec, api_auth_token, client>>

\* ensure_collection: update_collection or the upsert of the sentinel fails.
SentinelFail(w) ==
  /\ task[w].pc = "sentinel"
  /\ Invalidate
  /\ Failure(w, "qdrant_unavailable")
  /\ UNCHANGED <<storeVars, embVars, clock, histVars, firstOk, codec, api_auth_token, client>>

\* _create_payload_indexes returns (a failure of an index is logged only);
\* ensure_collection sets the cache and store_memory goes on.
IndexesDone(w) ==
  /\ task[w].pc = "indexes"
  /\ SetCached
  /\ AfterEnsure(w, task[w])
  /\ UNCHANGED <<storeVars, embVars, last, histVars, firstOk, codec, api_auth_token, client>>

\* asyncio.Lock.acquire resumes after release woke it: take the mutex, then
\* ask the vector store for the existing point.
AcquireWoken(w) ==
  LET t == task[w] IN
  /\ t.pc = "waiting" /\ t.woken
  /\ waiters' = [waiters EXCEPT ![t.lock] = SelectSeq(@, LAMBDA v : v # w)]
  /\ locked' = [locked EXCEPT ![t.lock] = TRUE]
  /\ task' = [task EXCEPT ![w] = [t EXCEPT !.pc = "retrieve", !.woken = FALSE]]
  /\ UNCHANGED <<storeVars, cacheVars, table, embVars, clock, last, histVars, firstOk, codec, api_auth_token, client>>

\* Not the program: a missing first_written_at read as the oldest time.
ExistingOrZero(id, now) ==
  IF id \in DOMAIN points /\ "first_written_at" \in DOMAIN points[id].payload
  THEN points[id].payload.first_written_at
  ELSE 0
\* payload.get("first_written_at", now) of the existing point
ExistingFirstWrittenAt(id, now) ==
  IF id \in DOMAIN points /\ "first_written_at" \in DOMAIN points[id].payload
  THEN points[id].payload.first_written_at
  ELSE now

\* retrieve answers.
RetrieveOk(w) ==
  LET t == task[w] IN
  /\ t.pc = "retrieve"
  /\ collection
  /\ task' = [task EXCEPT ![w] =
        StartEmbedding([t EXCEPT !.fwa = ExistingFirstWrittenAt(KeyedId(t.key), t.now)],
                       "embed")]
  /\ UNCHANGED <<storeVars, cacheVars, lockVars, embVars, clock, last, histVars, firstOk, codec, api_auth_token, client>>

\* retrieve raises (transport error, or the collection is gone): "treat as new".
RetrieveFail(w) ==
  LET t == task[w] IN
  /\ t.pc = "retrieve"
  /\ task' = [task EXCEPT ![w] = StartEmbedding([t EXCEPT !.fwa = t.now], "embed")]
  /\ UNCHANGED <<storeVars, cacheVars, lockVars, embVars, clock, last, histVars, firstOk, codec, api_auth_token, client>>

\* Not the program: a random id for every write, keyed or not.
RandomId(t) == uuid4(t.now)
\* Not the program: one id for every write without a key.
SameId(t) == IF t.key = None THEN uuid4(0) ELSE KeyedId(t.key)
\* The id store_memory computes for the point.
PointId(t) == IF t.key = None THEN uuid4(t.now) ELSE KeyedId(t.key)

\* Not the program: a payload whose first_written_at is always the time of
\* the write.
PayloadReset(t) ==
  [schema_version |-> 1, text |-> t.input.text, tags |-> t.input.tags,
   source |-> t.input.source, dedupe_key |-> t.key,
   external_id |-> IF t.op = "ingest" THEN None ELSE t.input.external_id,
   written_at |-> t.now, first_written_at |-> t.now]
Payload(t) ==
  [schema_version |-> 1, text |-> t.input.text, tags |-> t.input.tags,
   source |-> t.input.source, dedupe_key |-> t.key,
   external_id |-> IF t.op = "ingest" THEN None ELSE t.input.external_id,
   written_at |-> t.now, first_written_at |-> t.fwa]

IdStrategy(t) == IF t.key = None THEN "random" ELSE "deduped"

Min(a, b) == IF a < b THEN a ELSE b

\* _upsert_point succeeds: the point is stored and store_memory returns.
UpsertOk(w) ==
  LET t == task[w]
      id == PointId(t)
  IN
  /\ t.pc = "upsert"
  /\ collection
  /\ points' = (id :> [vector |-> [len |-> EmbedDim, zero |-> FALSE],
                       payload |-> Payload(t)]) @@ points
  /\ firstNow' = IF t.key = None THEN firstNow
                 ELSE [firstNow EXCEPT ![t.key] =
                         IF id \in DOMAIN points /\ @ # 0 THEN Min(@, t.now) ELSE t.now]
  /\ lastCommit' = IF t.key = None THEN lastCommit
                   ELSE [lastCommit EXCEPT ![t.key] =
                           [t.input EXCEPT !.external_id = Payload(t).external_id]]
  /\ returned' = returned \cup {<<t.key, id>>}
  /\ Finish(w, [ok |-> TRUE, id |-> id, id_strategy |-> IdStrategy(t),
                key |-> t.key, existed |-> id \in DOMAIN points])
  /\ UNCHANGED <<collection, cacheVars, embVars, clock, firstOk, codec, api_auth_token, client>>

\* _upsert_point fails (transport error, or the collection is gone).
UpsertFail(w) ==
  /\ task[w].pc = "upsert"
  /\ Failure(w, "qdrant_unavailable")
  /\ UNCHANGED <<storeVars, cacheVars, embVars, clock, histVars, firstOk, codec, api_auth_token, client>>

\* ------------------------------------------------------- reads and deletes
\* The handlers below are modelled as one step each: what they read from the
\* vector store they read in one RPC, and their only writes to shared state
\* are the existence cache and the embedder's pinned path.  Each RPC and each
\* embedding request either answers or fails, as the environment chooses:
\* fault names the RPC to the vector store that meets a transport error
\* ("none": all of them answer).

cursor_secret == "secret-a"

\* Not the program: a filter that lets every point pass.
AnyPoint(p) == TRUE
\* The filter search and scroll are called with: must_not(_meta == True).
NotMeta(p) == ~("_meta" \in DOMAIN p.payload /\ p.payload._meta = TRUE)

Get(payload, field, default) ==
  IF field \in DOMAIN payload THEN payload[field] ELSE default

\* Not the program: an existence check that always answers yes.
AlwaysExists(up) == [ans |-> "yes", val |-> cacheVal, fresh |-> cacheFresh]
\* Not the program: an existence check that trusts a positive entry of any age.
ExistsStale(up) ==
  IF cacheVal = "True" THEN [ans |-> "yes", val |-> cacheVal, fresh |-> cacheFresh]
  ELSE IF ~up THEN [ans |-> "error", val |-> "None", fresh |-> FALSE]
  ELSE IF collection THEN [ans |-> "yes", val |-> "True", fresh |-> TRUE]
  ELSE [ans |-> "no", val |-> "False", fresh |-> FALSE]
\* collection_exists run to its end: the answer ("yes", "no", or "error" for
\* QdrantConnectionError) and the cache it leaves.
ExistsNow(up) ==
  IF CacheHit THEN [ans |-> "yes", val |-> cacheVal, fresh |-> cacheFresh]
  ELSE IF ~up THEN [ans |-> "error", val |-> "None", fresh |-> FALSE]
  ELSE IF collection THEN [ans |-> "yes", val |-> "True", fresh |-> TRUE]
  ELSE [ans |-> "no", val |-> "False", fresh |-> FALSE]

\* get_embedding run to its end.  how = "first": the first request answers;
\* "second": the first fails and the second answers; "none": none answers.
EmbedNow(how) ==
  IF working_path # None
  THEN [ok |-> how = "first", sent |-> <<working_path>>, path |-> working_path]
  ELSE CASE how = "first" ->
              [ok |-> TRUE, sent |-> <<default_embed_path>>, path |-> default_embed_path]
         [] how = "second" ->
              [ok |-> TRUE, sent |-> <<default_embed_path, Fallback>>, path |-> Fallback]
         [] how = "none" ->
              [ok |-> FALSE, sent |-> <<default_embed_path, Fallback>>, path |-> None]

\* One item of the output of search.
SearchItem(id, include_text) ==
  LET p == points[id].payload
      item == [id |-> id, tags |-> Get(p, "tags", << >>), source |-> Get(p, "source", ""),
               written_at |-> Get(p, "written_at", 0)]
  IN IF include_text THEN [text |-> Get(p, "text", Str("", 0))] @@ item ELSE item

\* The points a similarity search may answer with: any limit of the points that
\* pass the filter (the scores are the engine's).
SearchHits(limit) ==
  LET ok == {id \in DOMAIN points : NotMeta(points[id])}
      n == IF Cardinality(ok) < limit THEN Cardinality(ok) ELSE limit
  IN {h \in SUBSET ok : Cardinality(h) = n}

\* MemoryStore.search behind POST /search.
Search(top_k, include_text, fault, how) ==
  LET up1 == fault # "exists"
      up2 == fault # "search"
      e == ExistsNow(up1)
      emb == EmbedNow(how)
      base == [op |-> "search", existed |-> collection, cached |-> CacheHit,
               reachable |-> up1, after |-> collection', sent |-> << >>,
               results |-> {}, hits |-> {}]
  IN
  /\ how \in (IF working_path # None THEN {"first", "none"} ELSE {"first", "second", "none"})
  /\ UNCHANGED <<histVars, codec, api_auth_token, client>>
  /\ firstOk' = IF e.ans = "yes" /\ emb.ok /\ firstOk = None THEN emb.path ELSE firstOk
  /\ UNCHANGED <<storeVars, lockVars, dimension, clock, task>>
  /\ IF e.ans = "error"
     THEN /\ last' = [status |-> 503, error |-> "qdrant_unavailable"] @@ base
          /\ cacheVal' = e.val /\ cacheFresh' = e.fresh
          /\ UNCHANGED working_path
     ELSE IF e.ans = "no"
     THEN /\ last' = [status |-> 200, error |-> None] @@ base
          /\ cacheVal' = e.val /\ cacheFresh' = e.fresh
          /\ UNCHANGED working_path
     ELSE IF ~emb.ok
     THEN /\ last' = [status |-> 503, error |-> "embedding_unavailable",
                      sent |-> emb.sent] @@ base
          /\ cacheVal' = e.val /\ cacheFresh' = e.fresh
          /\ UNCHANGED working_path
     ELSE /\ working_path' = emb.path
          /\ IF ~up2
             THEN /\ last' = [status |-> 503, error |-> "qdrant_unavailable",
                              sent |-> emb.sent] @@ base
                  /\ cacheVal' = e.val /\ cacheFresh' = e.fresh
             ELSE IF ~collection
             THEN /\ last' = [status |-> 200, error |-> None, sent |-> emb.sent] @@ base
                  /\ Invalidate
             ELSE /\ \E h \in SearchHits(top_k) :
                       last' = [status |-> 200, error |-> None, sent |-> emb.sent,
                                hits |-> {points[id] : id \in h},
                                results |-> {SearchItem(id, include_text) : id \in h}]
                                @@ base
                  /\ cacheVal' = e.val /\ cacheFresh' = e.fresh

RECURSIVE Newest(_)
\* The ids in order_by(written_at, descending) order.
Newest(ids) ==
  IF ids = {} THEN << >>
  ELSE LET top == CHOOSE i \in ids : \A j \in ids :
                    \/ Get(points[j].payload, "written_at", 0)
                         < Get(points[i].payload, "written_at", 0)
                    \/ j = i
                    \/ (Get(points[j].payload, "written_at", 0)
                          = Get(points[i].payload, "written_at", 0)
                        /\ j \in ids \ {i})
       IN <<top>> \o Newest(ids \ {top})

\* Not the program: a scroll that ignores the offset it is given.
ScrollFromStart(limit, offset) ==
  LET all == Newest({id \in DOMAIN points : NotMeta(points[id])})
      from == IF offset.t = "int" THEN offset.v ELSE 0
      to == IF from + limit < Len(all) THEN from + limit ELSE Len(all)
  IN [page |-> SubSeq(all, 1, IF limit < Len(all) THEN limit ELSE Len(all)),
      next |-> IF to < Len(all) THEN JInt(to) ELSE JNull]
\* scroll(filter, limit, offset, order_by): the page and the next offset.  The
\* engine's offset is the number of points to skip.
Scroll(limit, offset) ==
  LET all == Newest({id \in DOMAIN points : NotMeta(points[id])})
      from == IF offset.t = "int" THEN offset.v ELSE 0
      to == IF from + limit < Len(all) THEN from + limit ELSE Len(all)
  IN [page |-> SubSeq(all, from + 1, to),
      next |-> IF to < Len(all) THEN JInt(to) ELSE JNull]

\* One record of the output of list_memories.
MemoryRecord(id) ==
  LET p == points[id].payload
  IN [id |-> id, text |-> Get(p, "text", Str("", 0)), tags |-> Get(p, "tags", << >>),
      source |-> Get(p, "source", ""), written_at |-> Get(p, "written_at", 0),
      first_written_at |-> Get(p, "first_written_at", 0),
      dedupe_key |-> Get(p, "dedupe_key", None),
      external_id |-> Get(p, "external_id", None)]

\* GET /memories when list_memories raises: ValueError is answered by the
\* handler itself, any other exception by the generic exception handler.
ListFailure(kind) ==
  IF kind = "ValueError" THEN [status |-> 400, error |-> "invalid_cursor"]
  ELSE [status |-> 500, error |-> "internal_error"]

\* Not the program: a list that treats "collection not found" as any other
\* error of the store.
ListSurfacing(limit, cursor, fault) ==
  /\ CacheHit /\ ~collection
  /\ last' = [op |-> "list", status |-> 503, error |-> "qdrant_unavailable",
              existed |-> FALSE, cached |-> TRUE, reachable |-> TRUE, after |-> FALSE,
              cursor |-> cursor, memories |-> << >>, next_cursor |-> << >>,
              hits |-> << >>]
  /\ UNCHANGED <<storeVars, cacheVars, lockVars, embVars, clock, task, histVars, firstOk,
                 codec, api_auth_token, client>>
\* MemoryStore.list_memories behind GET /memories.  cursor is << >> (no
\* cursor) or <<c>>.
List(limit, cursor, fault) ==
  LET up1 == fault # "exists"
      up2 == fault # "scroll"
      e == ExistsNow(up1)
      dec == IF cursor = << >> THEN [kind |-> "ok", offset |-> JNull]
             ELSE DecodeCursor(cursor_secret, cursor[1])
      base == [op |-> "list", existed |-> collection, cached |-> CacheHit,
               reachable |-> up1, after |-> collection', cursor |-> cursor,
               memories |-> << >>, next_cursor |-> << >>, hits |-> << >>]
      sc == Scroll(limit, dec.offset)
  IN
  /\ UNCHANGED <<storeVars, lockVars, embVars, clock, task, histVars, firstOk, codec, api_auth_token, client>>
  /\ IF e.ans = "error"
     THEN /\ last' = [status |-> 503, error |-> "qdrant_unavailable"] @@ base
          /\ cacheVal' = e.val /\ cacheFresh' = e.fresh
     ELSE IF e.ans = "no"
     THEN /\ last' = [status |-> 200, error |-> None] @@ base
          /\ cacheVal' = e.val /\ cacheFresh' = e.fresh
     ELSE IF dec.kind # "ok"
     THEN /\ last' = ListFailure(dec.kind) @@ base
          /\ cacheVal' = e.val /\ cacheFresh' = e.fresh
     ELSE IF ~up2
     THEN /\ last' = [status |-> 503, error |-> "qdrant_unavailable"] @@ base
          /\ cacheVal' = e.val /\ cacheFresh' = e.fresh
     ELSE IF ~collection
     THEN /\ last' = [status |-> 200, error |-> None] @@ base
          /\ Invalidate
     ELSE /\ last' = [status |-> 200, error |-> None,
                      hits |-> [i \in DOMAIN sc.page |-> points[sc.page[i]]],
                      memories |-> [i \in DOMAIN sc.page |-> MemoryRecord(sc.page[i])],
                      next_cursor |-> IF sc.next # JNull
                                      THEN <<EncodeCursor(cursor_secret, sc.next)>>
                                      ELSE << >>] @@ base
          /\ cacheVal' = e.val /\ cacheFresh' = e.fresh

\* What list_memories returns when the collection exists and the scroll is
\* answered: the ids of the page, the records, the engine's next offset and
\* the cursor made of it.  cursor is << >> or <<c>> with c a cursor that decodes.
ListOutput(limit, cursor) ==
  LET offset == IF cursor = << >> THEN JNull
                ELSE DecodeCursor(cursor_secret, cursor[1]).offset
      sc == Scroll(limit, offset)
  IN [ids |-> sc.page,
      memories |-> [i \in DOMAIN sc.page |-> MemoryRecord(sc.page[i])],
      next_page_offset |-> sc.next,
      next_cursor |-> IF sc.next # JNull THEN <<EncodeCursor(cursor_secret, sc.next)>>
                      ELSE << >>]

\* Not the program: a delete that removes nothing.
RemoveNothing(f, id) == f
\* delete(points_selector=[id]) of the vector store
Remove(f, id) == [i \in DOMAIN f \ {id} |-> f[i]]

KeyOf(id) == {k \in Keys : KeyedId(k) = id}

\* Not the program: a delete that drops the whole collection.
DeleteDropping(id, fault) ==
  /\ collection
  /\ collection' = FALSE
  /\ points' = << >>
  /\ last' = [op |-> "delete", id |-> id, existed |-> TRUE,
              present |-> id \in DOMAIN points, status |-> 200, error |-> None]
  /\ UNCHANGED <<cacheVars, lockVars, embVars, clock, task, histVars, firstOk, codec,
                 api_auth_token, client>>
\* MemoryStore.delete_memory behind DELETE /memory/{memory_id}.
Delete(id, fault) ==
  LET up1 == fault # "exists"
      up2 == fault # "retrieve"
      up3 == fault # "delete"
      e == ExistsNow(up1)
      base == [op |-> "delete", id |-> id, existed |-> collection,
               present |-> id \in DOMAIN points]
  IN
  /\ UNCHANGED <<collection, lockVars, embVars, clock, task, firstOk, codec, api_auth_token, client>>
  /\ IF e.ans = "error"
     THEN /\ last' = [status |-> 503, error |-> "qdrant_unavailable"] @@ base
          /\ cacheVal' = e.val /\ cacheFresh' = e.fresh
          /\ UNCHANGED <<points, histVars>>
     ELSE IF e.ans = "no"
     THEN /\ last' = [status |-> 404, error |-> "collection_not_found"] @@ base
          /\ cacheVal' = e.val /\ cacheFresh' = e.fresh
          /\ UNCHANGED <<points, histVars>>
     ELSE IF ~up2
     THEN /\ last' = [status |-> 503, error |-> "qdrant_unavailable"] @@ base
          /\ cacheVal' = e.val /\ cacheFresh' = e.fresh
          /\ UNCHANGED <<points, histVars>>
     ELSE IF ~collection
     THEN /\ last' = [status |-> 404, error |-> "collection_not_found"] @@ base
          /\ Invalidate
          /\ UNCHANGED <<points, histVars>>
     ELSE IF id \notin DOMAIN points
     THEN /\ last' = [status |-> 404, error |-> "collection_not_found"] @@ base
          /\ cacheVal' = e.val /\ cacheFresh' = e.fresh
          /\ UNCHANGED <<points, histVars>>
     ELSE IF ~up3
     THEN /\ last' = [status |-> 503, error |-> "qdrant_unavailable"] @@ base
          /\ cacheVal' = e.val /\ cacheFresh' = e.fresh
          /\ UNCHANGED <<points, histVars>>
     ELSE /\ last' = [status |-> 200, error |-> None] @@ base
          /\ cacheVal' = e.val /\ cacheFresh' = e.fresh
          /\ points' = Remove(points, id)
          /\ firstNow' = [k \in Keys |-> IF k \in KeyOf(id) THEN 0 ELSE firstNow[k]]
          /\ lastCommit' = [k \in Keys |->
                              IF k \in KeyOf(id) THEN NoInput ELSE lastCommit[k]]
          /\ UNCHANGED returned

\* ------------------------------------------------------- health and startup
\* What the embedding service may answer to one request: no answer
\* (httpx.RequestError), a status that is no success (httpx.HTTPStatusError), or
\* a 2xx answer whose body is {"embeddings": [[...]]}, {"embedding": [...]}, an
\* object with neither key, {"embeddings": []}, or no JSON at all.
Replies ==
  {"unreachable", "status", "embeddings", "embedding", "other_keys",
   "empty_embeddings", "not_json"}

\* OllamaClient._try_embed_path: a vector, or the exception that leaves it.
TryEmbedPath(reply) ==
  CASE reply = "unreachable" -> "EmbeddingUnavailable"
    [] reply = "status" -> "EmbeddingUnavailable"
    [] reply = "not_json" -> "JSONDecodeError"
    [] reply = "embeddings" -> "vector"
    [] reply = "empty_embeddings" -> "IndexError"
    [] reply = "embedding" -> "vector"
    [] reply = "other_keys" -> "EmbeddingUnavailable"

\* OllamaClient.get_embedding, given the answers to its first and its second
\* request: what it returns or raises, and _working_path afterwards.
get_embedding(replies) ==
  LET first == TryEmbedPath(replies[1])
      second == TryEmbedPath(replies[2])
  IN IF ~client
     THEN [kind |-> "EmbeddingUnavailable", path |-> working_path, sent |-> << >>]
     ELSE IF working_path # None
     THEN [kind |-> first, path |-> working_path, sent |-> <<working_path>>]
     ELSE IF first = "vector"
     THEN [kind |-> "vector", path |-> default_embed_path, sent |-> <<default_embed_path>>]
     ELSE IF first # "EmbeddingUnavailable"
     THEN [kind |-> first, path |-> None, sent |-> <<default_embed_path>>]
     ELSE IF second = "vector"
     THEN [kind |-> "vector", path |-> Fallback, sent |-> <<default_embed_path, Fallback>>]
     ELSE [kind |-> second, path |-> None, sent |-> <<default_embed_path, Fallback>>]

\* OllamaClient.probe_dimension
probe_dimension(replies) ==
  IF dimension # 0
  THEN [kind |-> "vector", path |-> working_path, dim |-> dimension]
  ELSE LET g == get_embedding(replies)
       IN [kind |-> g.kind, path |-> g.path,
           dim |-> IF g.kind = "vector" THEN EmbedDim ELSE 0]

\* OllamaClient.is_available: "true", "false", "null" (the bound elapsed
\* first), or "raises" when get_embedding raises what is_available does not
\* catch.  slow: the bound elapses before get_embedding ends.
is_available(replies, slow) ==
  LET g == get_embedding(replies)
  IN IF ~client THEN [ans |-> "false", path |-> working_path]
     ELSE IF slow THEN [ans |-> "null", path |-> working_path]
     ELSE CASE g.kind = "vector" -> [ans |-> "true", path |-> g.path]
            [] g.kind = "EmbeddingUnavailable" -> [ans |-> "false", path |-> g.path]
            [] OTHER -> [ans |-> "raises", path |-> g.path]

\* check_qdrant of the health handler: the answer and the cache it leaves.
\* q = "answers", "fails" (transport error) or "timeout" (the bound elapsed
\* first and the call was cancelled).
check_qdrant(q) ==
  IF CacheHit THEN [ans |-> "true", val |-> cacheVal, fresh |-> cacheFresh]
  ELSE IF q = "timeout" THEN [ans |-> "null", val |-> cacheVal, fresh |-> cacheFresh]
  ELSE LET e == ExistsNow(q = "answers")
       IN [ans |-> IF e.ans = "error" THEN "false" ELSE "true",
           val |-> e.val, fresh |-> e.fresh]

Overall(qdrant_status, ollama_status) ==
  IF qdrant_status = "true" /\ ollama_status = "true" THEN "ok"
  ELSE IF qdrant_status = "true" THEN "degraded"
  ELSE "unavailable"

\* GET /health
Health(q, replies, slow) ==
  LET c == check_qdrant(q)
      o == is_available(replies, slow)
      overall == Overall(c.ans, o.ans)
  IN
  /\ cacheVal' = c.val /\ cacheFresh' = c.fresh
  /\ working_path' = o.path
  /\ firstOk' = IF o.ans = "true" /\ firstOk = None THEN o.path ELSE firstOk
  /\ last' = IF o.ans = "raises"
             THEN [op |-> "health", status |-> 500, error |-> "internal_error",
                   overall |-> None, qdrant |-> None, ollama |-> None]
             ELSE [op |-> "health", status |-> IF overall = "ok" THEN 200 ELSE 503,
                   error |-> None, overall |-> overall, qdrant |-> c.ans,
                   ollama |-> o.ans]
  /\ UNCHANGED <<storeVars, lockVars, dimension, clock, task, histVars, codec, api_auth_token, client>>

\* MemoryStore.validate_model: "ok", "proceed" (nothing to validate), "skip"
\* (the embedder cannot be probed), or the exception that leaves it.
validate_model(up, replies) ==
  LET meta == IF MetaId \in DOMAIN points THEN points[MetaId].payload ELSE << >>
      probe == probe_dimension(replies)
      unprobed == [kind |-> None, path |-> working_path, dim |-> dimension]
      out(res, pr) == [result |-> res, probe |-> pr.kind, path |-> pr.path, dim |-> pr.dim]
  IN IF ~up THEN out("QdrantConnectionError", unprobed)
     ELSE IF MetaId \notin DOMAIN points THEN out("proceed", unprobed)
     ELSE IF ~Get(meta, "_meta", FALSE) THEN out("proceed", unprobed)
     ELSE IF Get(meta, "model", None) = None THEN out("proceed", unprobed)
     ELSE IF probe.kind = "EmbeddingUnavailable" THEN out("skip", probe)
     ELSE IF probe.kind # "vector" THEN out(probe.kind, probe)
     ELSE IF \/ meta.model # embed_model
             \/ "dim" \notin DOMAIN meta
             \/ meta.dim # probe.dim
     THEN out("ModelMismatchError", probe)
     ELSE out("ok", probe)

\* The coroutine of lifespan: before the checks, before the probe of the
\* embedder, serving (at its yield), or ended without serving.
Lifespan(pc) == [IdleTask EXCEPT !.op = "lifespan", !.pc = pc]
Serving == task[1].op = "lifespan" /\ task[1].pc = "serving"

\* lifespan, the startup checks of the vector store: collection_exists and,
\* if the collection exists, validate_model.  fault names the request to the
\* vector store that meets a transport error.
StartupChecks(fault, replies) ==
  LET e == ExistsNow(fault # "exists")
      v == validate_model(fault # "retrieve", replies)
      validated == e.ans = "yes"
      fatal == validated /\ v.result = "ModelMismatchError"
      crash == validated
                 /\ v.result \notin {"ok", "proceed", "skip", "QdrantConnectionError",
                                     "ModelMismatchError"}
  IN
  /\ task[1] = Lifespan("startup")
  /\ cacheVal' = e.val /\ cacheFresh' = e.fresh
  /\ working_path' = IF validated THEN v.path ELSE working_path
  /\ dimension' = IF validated THEN v.dim ELSE dimension
  /\ firstOk' = IF validated /\ firstOk = None THEN v.path ELSE firstOk
  /\ task' = [task EXCEPT ![1] =
                Lifespan(IF fatal \/ crash THEN "exited" ELSE "ping")]
  /\ last' = [op |-> "lifespan", existed |-> collection, answered |-> e.ans,
              validation |-> IF validated THEN v.result ELSE None,
              probe |-> IF validated THEN v.probe ELSE None,
              has_sentinel |-> MetaId \in DOMAIN points,
              sentinel |-> IF MetaId \in DOMAIN points THEN points[MetaId].payload
                           ELSE [schema_version |-> 0],
              exit |-> IF fatal THEN "ModelMismatch"
                       ELSE IF crash THEN v.result ELSE None]
  /\ UNCHANGED <<storeVars, lockVars, clock, histVars, codec, api_auth_token, client>>

\* lifespan, the startup check of the embedder, up to the yield.
StartupPing(replies, slow) ==
  LET o == is_available(replies, slow) IN
  /\ task[1] = Lifespan("ping")
  /\ working_path' = o.path
  /\ firstOk' = IF o.ans = "true" /\ firstOk = None THEN o.path ELSE firstOk
  /\ task' = [task EXCEPT ![1] =
                Lifespan(IF o.ans = "raises" THEN "exited" ELSE "serving")]
  /\ last' = [last EXCEPT !.exit = IF o.ans = "raises" THEN "Exception" ELSE None]
  /\ UNCHANGED <<storeVars, cacheVars, lockVars, dimension, clock, histVars, codec,
                 api_auth_token, client>>

\* ------------------------------------------------------------ environment
\* The collection is deleted by someone else (the core never deletes it).
DropCollection ==
  /\ collection
  /\ collection' = FALSE
  /\ points' = << >>
  /\ firstNow' = [k \in Keys |-> 0]
  /\ lastCommit' = [k \in Keys |-> NoInput]
  /\ UNCHANGED <<cacheVars, lockVars, embVars, clock, task, last, returned, firstOk, codec, api_auth_token, client>>

\* _collection_cache_ttl seconds pass since the cache was set.
Expire ==
  /\ cacheVal = "True" /\ cacheFresh
  /\ cacheFresh' = FALSE
  /\ UNCHANGED <<storeVars, cacheVal, lockVars, embVars, clock, task, last, histVars, firstOk, codec, api_auth_token, client>>

\* ----------------------------------------------------------------- ingest
\* Not the program: a length check that lets every item pass.
NeverTooLong(item) == FALSE
\* len(item.text) > settings.max_text_length
TooLong(item) == item.text.len > max_text_length

\* POST /ingest (ingest_memories) starts its loop over the items.
StartIngest(w, batch, limit) ==
  /\ Accepts(w)
  /\ clock + Len(batch) <= limit
  /\ task' = [task EXCEPT ![w] =
        [IdleTask EXCEPT !.op = "ingest", !.pc = "item", !.batch = batch, !.idx = 1]]
  /\ UNCHANGED <<storeVars, cacheVars, lockVars, embVars, clock, last, histVars,
                 firstOk, codec, api_auth_token, client>>

\* One turn of the loop of ingest_memories: return after the last item, count
\* an item that is too long as failed, or call store_memory with the item.
IngestItem(w) ==
  LET t == task[w] IN
  /\ t.op = "ingest" /\ t.pc = "item"
  /\ UNCHANGED <<storeVars, cacheVars, embVars, histVars, firstOk, codec, api_auth_token, client>>
  /\ IF t.idx > Len(t.batch)
     THEN /\ last' = [op |-> "ingest", status |-> 200, succeeded |-> t.succeeded,
                      failed |-> t.failed, errors |-> t.errors, batch |-> t.batch,
                      attempted |-> t.attempted, stored |-> t.stored]
          /\ task' = [task EXCEPT ![w] = IdleTask]
          /\ UNCHANGED <<clock, lockVars>>
     ELSE IF TooLong(t.batch[t.idx])
     THEN /\ task' = [task EXCEPT ![w] =
                 [t EXCEPT !.idx = t.idx + 1, !.failed = t.failed + 1,
                           !.errors = Append(t.errors,
                              [index |-> t.idx - 1, error |-> "text exceeds maximum length"])]]
          /\ UNCHANGED <<clock, lockVars, last>>
     ELSE /\ CallStore(w, [t EXCEPT !.key = t.batch[t.idx].dedupe_key,
                                    !.input = [text |-> t.batch[t.idx].text,
                                               tags |-> t.batch[t.idx].tags,
                                               source |-> t.batch[t.idx].source,
                                               external_id |-> None],
                                    !.attempted = Append(t.attempted, t.idx)])
          /\ UNCHANGED last

\* The steps of store_memory of a handler that shares no mutex with another.
SoloSteps(w) ==
  \/ ExistsOk(w) \/ ExistsFail(w)
  \/ EmbedOk(w) \/ EmbedRetry(w) \/ EmbedFail(w)
  \/ CreateOk(w) \/ CreateFail(w)
  \/ SentinelOk(w) \/ SentinelFail(w)
  \/ IndexesDone(w)
  \/ RetrieveOk(w) \/ RetrieveFail(w)
  \/ UpsertOk(w) \/ UpsertFail(w)

StoreSteps(w) ==
  \/ ExistsOk(w) \/ ExistsFail(w)
  \/ EmbedOk(w) \/ EmbedRetry(w) \/ EmbedFail(w)
  \/ CreateOk(w) \/ CreateFail(w)
  \/ SentinelOk(w) \/ SentinelFail(w)
  \/ IndexesDone(w)
  \/ AcquireWoken(w)
  \/ RetrieveOk(w) \/ RetrieveFail(w)
  \/ UpsertOk(w) \/ UpsertFail(w)

Next ==
  \E w \in Clients :
    \/ \E k \in Keys \cup {None}, in \in Inputs : StartStore(w, k, in, MaxWrites)
    \/ StoreSteps(w)

Spec == Init /\ [][Next]_vars

\* ------------------------------------------------- concurrent keyed writers
\* A process started on a collection an earlier process created; the vector
\* store stays reachable, the embedder may fail.
InitExisting ==
  /\ collection = TRUE
  /\ points = (MetaId :> [vector |-> [len |-> EmbedDim, zero |-> TRUE],
                          payload |-> [schema_version |-> 1, _meta |-> TRUE,
                                       model |-> embed_model, dim |-> EmbedDim]])
  /\ cacheVal = "None"
  /\ cacheFresh = FALSE
  /\ table = << >>
  /\ locked = [l \in LockIds |-> FALSE]
  /\ waiters = [l \in LockIds |-> << >>]
  /\ working_path = None
  /\ dimension = 0
  /\ clock = 0
  /\ task = [w \in Workers |-> IdleTask]
  /\ last = NoResp
  /\ firstNow = [k \in Keys |-> 0]
  /\ lastCommit = [k \in Keys |-> NoInput]
  /\ returned = {}
  /\ firstOk = None
  /\ codec = NoCodec
  /\ api_auth_token = ""
  /\ client = TRUE

RaceInput == CHOOSE in \in Inputs : in.text.s = "First"

NextRace ==
  \E w \in Racers :
    \/ \E k \in Keys : StartStore(w, k, RaceInput, MaxClock)
    \/ ExistsOk(w)
    \/ AcquireWoken(w)
    \/ RetrieveOk(w)
    \/ EmbedOk(w) \/ EmbedRetry(w) \/ EmbedFail(w)
    \/ UpsertOk(w)

SpecRace == InitExisting /\ [][NextRace]_vars

\* ------------------------------------------- keyed writers under a fair loop
\* The continuation of the store_memory call of w after a suspension: the
\* request it awaits (to the vector store or the embedder) returns or fails,
\* or the mutex it was woken for is taken.
Resumes(w) ==
  \/ ExistsOk(w)
  \/ ExistsFail(w)
  \/ AcquireWoken(w)
  \/ RetrieveOk(w)
  \/ RetrieveFail(w)
  \/ EmbedOk(w)
  \/ EmbedRetry(w)
  \/ EmbedFail(w)
  \/ UpsertOk(w)
  \/ UpsertFail(w)

MaxLiveWrites == 3

NextLive ==
  \E w \in Racers :
    \/ \E k \in Keys : StartStore(w, k, RaceInput, MaxLiveWrites)
    \/ Resumes(w)

\* The event loop runs every task that is ready, and every request to the
\* embedder and to the vector store returns or fails.
SpecLive ==
  InitExisting /\ [][NextLive]_vars /\ \A w \in Racers : WF_vars(Resumes(w))

\* ------------------------------------------------ one client, reads, deletes
MaxStored == 2
MaxOffset == 1
MaxPage == 2
\* The ids a client may name: those of the stored points and those of the keys.
KnownIds == DOMAIN points \cup {KeyedId(k) : k \in Keys}
\* The cursors a client may hold: none, one the server issued earlier, or one
\* that is no cursor.
ClientCursors ==
  {<< >>, <<NotBase64>>}
    \cup {<<EncodeCursor(cursor_secret, JInt(n))>> : n \in 1 .. MaxOffset}

NextRead ==
  \/ \E k \in Keys \cup {None} : StartStore(1, k, RaceInput, MaxStored)
  \/ SoloSteps(1)
  \/ \E top_k \in 1 .. MaxPage, include_text \in BOOLEAN,
        fault \in {"none", "exists", "search"}, how \in {"first", "second", "none"} :
        Search(top_k, include_text, fault, how)
  \/ \E limit \in 1 .. MaxPage, cursor \in ClientCursors,
        fault \in {"none", "exists", "scroll"} : List(limit, cursor, fault)
  \/ \E id \in KnownIds, fault \in {"none", "exists", "retrieve", "delete"} :
        Delete(id, fault)
  \/ DropCollection
  \/ Expire

SpecRead == Init /\ [][NextRead]_vars

\* --------------------------------------- one client, one shape of each read
\* The requests of NextRead with the page size and the projection of search
\* fixed, and one dedupe_key.
NextServe ==
  \/ \E k \in {None, "k1"} : StartStore(1, k, RaceInput, MaxStored)
  \/ SoloSteps(1)
  \/ \E fault \in {"none", "exists", "search"}, how \in {"first", "second", "none"} :
        Search(MaxPage, TRUE, fault, how)
  \/ \E limit \in 1 .. MaxPage, cursor \in ClientCursors,
        fault \in {"none", "exists", "scroll"} : List(limit, cursor, fault)
  \/ \E id \in KnownIds, fault \in {"none", "exists", "retrieve", "delete"} :
        Delete(id, fault)
  \/ DropCollection
  \/ Expire

SpecServe == Init /\ [][NextServe]_vars

\* ------------------------------------------------- the embedder unreachable
SentinelPoint ==
  [vector |-> [len |-> EmbedDim, zero |-> TRUE],
   payload |-> [schema_version |-> 1, _meta |-> TRUE, model |-> embed_model,
                dim |-> EmbedDim]]

\* A process whose embedder answered for a while and is unreachable from now
\* on.  What the healthy period may have left: the collection with its
\* sentinel or no collection (never created, or dropped by someone else), a
\* pinned path, a cached dimension (probe_dimension returned and
\* create_collection failed after it, or the collection was dropped).
InitDegraded ==
  /\ collection \in BOOLEAN
  /\ points = IF collection THEN (MetaId :> SentinelPoint) ELSE << >>
  /\ cacheVal = "None"
  /\ cacheFresh = FALSE
  /\ table = << >>
  /\ locked = [l \in LockIds |-> FALSE]
  /\ waiters = [l \in LockIds |-> << >>]
  /\ \E e \in {<<None, 0>>, <<default_embed_path, 0>>, <<default_embed_path, EmbedDim>>} :
       /\ working_path = e[1]
       /\ dimension = e[2]
       /\ firstOk = e[1]
  /\ clock = 0
  /\ task = [w \in Workers |-> IdleTask]
  /\ last = NoResp
  /\ firstNow = [k \in Keys |-> 0]
  /\ lastCommit = [k \in Keys |-> NoInput]
  /\ returned = {}
  /\ codec = NoCodec
  /\ api_auth_token = ""
  /\ client = TRUE

\* ensure_collection: create_collection answers that the collection exists
\* already (another call created it since this one looked).
CreateConflict(w) == collection /\ CreateFail(w)

\* Every request to the embedder fails, every request to the vector store is
\* answered.
NextDegraded ==
  \/ \E w \in Clients :
       \/ \E k \in Keys \cup {None} : StartStore(w, k, RaceInput, MaxWrites)
       \/ ExistsOk(w)
       \/ EmbedRetry(w) \/ EmbedFail(w)
       \/ CreateOk(w)
       \/ CreateConflict(w)
       \/ SentinelOk(w)
       \/ IndexesDone(w)
       \/ AcquireWoken(w)
       \/ RetrieveOk(w)
  \/ \E limit \in 1 .. MaxPage : List(limit, << >>, "none")
  \/ \E id \in KnownIds \cup {uuid4(0)} : Delete(id, "none")

SpecDegraded == InitDegraded /\ [][NextDegraded]_vars

\* ------------------------------------------- first writes, healthy services
\* Clients write into a fresh vector store while the embedder and the vector
\* store answer every request; create_collection is refused only where the
\* collection exists by the time it is called.
NextFirst ==
  \E w \in Clients :
    \/ \E k \in Keys \cup {None} : StartStore(w, k, RaceInput, MaxWrites)
    \/ ExistsOk(w)
    \/ EmbedOk(w)
    \/ CreateOk(w)
    \/ CreateConflict(w)
    \/ SentinelOk(w)
    \/ IndexesDone(w)
    \/ AcquireWoken(w)
    \/ RetrieveOk(w)
    \/ UpsertOk(w)

SpecFirst == Init /\ [][NextFirst]_vars

\* ------------------------------------------------------ startup and service
\* The payloads the point with the sentinel's id may carry in a collection
\* that exists when the process starts: written by this program under the
\* configured model, under another model or another dimension, or written
\* without one of its fields.
SentinelPayloads ==
  { [schema_version |-> 1, _meta |-> TRUE, model |-> embed_model, dim |-> EmbedDim],
    [schema_version |-> 1, _meta |-> TRUE, model |-> "other-model", dim |-> EmbedDim],
    [schema_version |-> 1, _meta |-> TRUE, model |-> embed_model, dim |-> 384],
    [schema_version |-> 1, _meta |-> TRUE, model |-> embed_model],
    [schema_version |-> 1, _meta |-> TRUE, dim |-> EmbedDim],
    [schema_version |-> 1, model |-> "other-model", dim |-> EmbedDim] }

\* A process at the start of lifespan: the collection does not exist, exists
\* without a sentinel, or exists with one.
InitStartup ==
  /\ collection \in BOOLEAN
  /\ points \in
       IF collection
       THEN {<< >>} \cup {(MetaId :> [vector |-> [len |-> EmbedDim, zero |-> TRUE],
                                      payload |-> pl]) : pl \in SentinelPayloads}
       ELSE {<< >>}
  /\ cacheVal = "None"
  /\ cacheFresh = FALSE
  /\ table = << >>
  /\ locked = [l \in LockIds |-> FALSE]
  /\ waiters = [l \in LockIds |-> << >>]
  /\ working_path = None
  /\ dimension = 0
  /\ clock = 0
  /\ task = [w \in Workers |-> IF w = 1 THEN Lifespan("startup") ELSE IdleTask]
  /\ last = NoResp
  /\ firstNow = [k \in Keys |-> 0]
  /\ lastCommit = [k \in Keys |-> NoInput]
  /\ returned = {}
  /\ firstOk = None
  /\ codec = NoCodec
  /\ api_auth_token = ""
  /\ client = TRUE

\* The answers of the embedding service the startup and the health check meet.
PingReplies == {<<"embeddings", "embeddings">>, <<"unreachable", "unreachable">>,
                <<"status", "embedding">>, <<"not_json", "not_json">>}

MaxServed == 1

\* Startup, then one client of a serving process.
NextLife ==
  \/ \E fault \in {"none", "exists", "retrieve"}, replies \in PingReplies :
       StartupChecks(fault, replies)
  \/ \E replies \in PingReplies, slow \in BOOLEAN : StartupPing(replies, slow)
  \/ \E q \in {"answers", "fails", "timeout"}, replies \in PingReplies,
        slow \in BOOLEAN : Serving /\ Health(q, replies, slow)
  \/ \E k \in {None, "k1"} : Serving /\ StartStore(2, k, RaceInput, MaxServed)
  \/ Serving /\ ExistsOk(2)
  \/ Serving /\ ExistsFail(2)
  \/ Serving /\ EmbedOk(2)
  \/ Serving /\ EmbedRetry(2)
  \/ Serving /\ EmbedFail(2)
  \/ Serving /\ CreateOk(2)
  \/ Serving /\ CreateFail(2)
  \/ Serving /\ SentinelOk(2)
  \/ Serving /\ SentinelFail(2)
  \/ Serving /\ IndexesDone(2)
  \/ Serving /\ RetrieveOk(2)
  \/ Serving /\ RetrieveFail(2)
  \/ Serving /\ UpsertOk(2)
  \/ Serving /\ UpsertFail(2)
  \/ \E how \in {"first", "none"} : Serving /\ Search(MaxPage, TRUE, "none", how)
  \/ Serving /\ List(MaxPage, << >>, "none")
  \/ \E id \in KnownIds : Serving /\ Delete(id, "none")
  \/ Serving /\ DropCollection

SpecLife == InitStartup /\ [][NextLife]_vars

\* ------------------------------------------------------ the process restarts
\* The process ends (at any point of its requests) and is started again: what
\* it held in memory is gone, the vector store and the clock are not.
Restart ==
  /\ task[1].op = "lifespan" /\ task[1].pc \in {"serving", "exited"}
  /\ task' = [w \in Workers |-> IF w = 1 THEN Lifespan("startup") ELSE IdleTask]
  /\ cacheVal' = "None" /\ cacheFresh' = FALSE
  /\ table' = << >>
  /\ locked' = [l \in LockIds |-> FALSE]
  /\ waiters' = [l \in LockIds |-> << >>]
  /\ working_path' = None
  /\ dimension' = 0
  /\ firstOk' = None
  /\ UNCHANGED <<storeVars, clock, last, histVars, codec, api_auth_token, client>>

\* A first start with no collection in the vector store.
InitRestart == InitStartup /\ ~collection

NextRestart ==
  \/ NextLife
  \/ Restart

SpecRestart == InitRestart /\ [][NextRestart]_vars

\* ----------------------------------------------------------- the auth gate
\* The Authorization header of a request: none, or a scheme (in lower case)
\* and credentials.
NoHeader == [scheme |-> None, credentials |-> ""]
Bearer(token) == [scheme |-> "bearer", credentials |-> token]
Headers ==
  {NoHeader, Bearer("secret-token"), Bearer("secret-tokem"), Bearer(""),
   [scheme |-> "basic", credentials |-> "secret-token"]}

\* HTTPBearer(auto_error=False): the credentials of a bearer header, or None.
HTTPBearer(h) ==
  IF h.scheme = None \/ h.credentials = "" \/ h.scheme # "bearer"
  THEN None ELSE h.credentials

\* Not the program: a gate that admits every request.
AdmitAll(h) == "ok"
\* require_auth: "ok", or the status of the HTTPException it raises.
require_auth(h) ==
  IF api_auth_token = "" THEN "ok"
  ELSE IF HTTPBearer(h) = None \/ HTTPBearer(h) # api_auth_token THEN "401"
  ELSE "ok"

\* http_exception_handler answers the HTTPException of require_auth; the
\* handler of the endpoint is not called.
Unauthorized(endpoint) ==
  /\ last' = [op |-> "auth", endpoint |-> endpoint, status |-> 401,
              error |-> "Unauthorized"]
  /\ UNCHANGED <<storeVars, cacheVars, lockVars, embVars, clock, task, histVars,
                 firstOk, codec, api_auth_token, client>>

\* The endpoints declared with dependencies=[Depends(require_auth)].
PostMemory(h, w, k) ==
  IF require_auth(h) = "ok" THEN StartStore(w, k, RaceInput, MaxServed)
  ELSE Unauthorized("POST /memory")

PostSearch(h, how) ==
  IF require_auth(h) = "ok" THEN Search(MaxPage, TRUE, "none", how)
  ELSE Unauthorized("POST /search")

PostIngest(h, w, batch) ==
  IF require_auth(h) = "ok" THEN StartIngest(w, batch, MaxServed)
  ELSE Unauthorized("POST /ingest")

GetMemories(h) ==
  IF require_auth(h) = "ok" THEN List(MaxPage, << >>, "none")
  ELSE Unauthorized("GET /memories")

DeleteMemory(h, id) ==
  IF require_auth(h) = "ok" THEN Delete(id, "none")
  ELSE Unauthorized("DELETE /memory/{memory_id}")

\* A fresh process, with or without a configured token.
InitAuth ==
  /\ collection = FALSE
  /\ points = << >>
  /\ cacheVal = "None"
  /\ cacheFresh = FALSE
  /\ table = << >>
  /\ locked = [l \in LockIds |-> FALSE]
  /\ waiters = [l \in LockIds |-> << >>]
  /\ working_path = None
  /\ dimension = 0
  /\ clock = 0
  /\ task = [w \in Workers |-> IdleTask]
  /\ last = NoResp
  /\ firstNow = [k \in Keys |-> 0]
  /\ lastCommit = [k \in Keys |-> NoInput]
  /\ returned = {}
  /\ firstOk = None
  /\ codec = NoCodec
  /\ api_auth_token \in {"", "secret-token"}
  /\ client = TRUE

AuthBatch ==
  <<[text |-> Str("short", 5), tags |-> <<"a">>, source |-> "cli", dedupe_key |-> None]>>

NextAuth ==
  \/ \E h \in Headers, k \in {None, "k1"} : PostMemory(h, 1, k)
  \/ \E h \in Headers : PostIngest(h, 1, AuthBatch)
  \/ IngestItem(1)
  \/ SoloSteps(1)
  \/ \E h \in Headers, how \in {"first", "none"} : PostSearch(h, how)
  \/ \E h \in Headers : GetMemories(h)
  \/ \E h \in Headers, id \in KnownIds : DeleteMemory(h, id)
  \/ \E q \in {"answers", "fails"}, replies \in PingReplies : Health(q, replies, FALSE)

SpecAuth == InitAuth /\ [][NextAuth]_vars

\* -------------------------------------------------------------- pagination
MaxListed == 3
\* The cursors a client may follow: none, or one the server has issued.
IssuedCursors ==
  {<< >>} \cup {<<EncodeCursor(cursor_secret, JInt(n))>> : n \in 1 .. (MaxListed - 1)}

\* One client that writes, lists and deletes; every request is answered.
NextList ==
  \/ \E k \in {None, "k1"} : StartStore(1, k, RaceInput, MaxListed)
  \/ ExistsOk(1)
  \/ EmbedOk(1)
  \/ CreateOk(1)
  \/ SentinelOk(1)
  \/ IndexesDone(1)
  \/ RetrieveOk(1)
  \/ UpsertOk(1)
  \/ \E limit \in 1 .. MaxPage, cursor \in IssuedCursors : List(limit, cursor, "none")
  \/ \E id \in KnownIds : Delete(id, "none")

SpecList == Init /\ [][NextList]_vars

\* ------------------------------------------------------- the embedder alone
\* An OllamaClient as constructed, with or without an HTTP client.
InitEmbed ==
  /\ collection = FALSE
  /\ points = << >>
  /\ cacheVal = "None"
  /\ cacheFresh = FALSE
  /\ table = << >>
  /\ locked = [l \in LockIds |-> FALSE]
  /\ waiters = [l \in LockIds |-> << >>]
  /\ working_path = None
  /\ dimension = 0
  /\ clock = 0
  /\ task = [w \in Workers |-> IdleTask]
  /\ last = NoResp
  /\ firstNow = [k \in Keys |-> 0]
  /\ lastCommit = [k \in Keys |-> NoInput]
  /\ returned = {}
  /\ firstOk = None
  /\ codec = NoCodec
  /\ api_auth_token = ""
  /\ client \in BOOLEAN

\* OllamaClient.set_client
SetClient ==
  /\ ~client
  /\ client' = TRUE
  /\ UNCHANGED <<storeVars, cacheVars, lockVars, embVars, clock, task, last, histVars,
                 firstOk, codec, api_auth_token>>

\* A call of get_embedding; replies are the answers of the embedding service
\* to its first and its second request.
EmbedCall(replies) ==
  LET g == get_embedding(replies) IN
  /\ working_path' = g.path
  /\ firstOk' = IF g.kind = "vector" /\ firstOk = None THEN g.path ELSE firstOk
  /\ last' = [op |-> "embed", client |-> client, pinned |-> working_path,
              replies |-> replies, kind |-> g.kind, sent |-> g.sent, path |-> g.path]
  /\ UNCHANGED <<storeVars, cacheVars, lockVars, dimension, clock, task, histVars, codec,
                 api_auth_token, client>>

\* A call of probe_dimension.
ProbeCall(replies) ==
  LET p == probe_dimension(replies) IN
  /\ working_path' = p.path
  /\ dimension' = p.dim
  /\ firstOk' = IF p.kind = "vector" /\ firstOk = None THEN p.path ELSE firstOk
  /\ last' = [op |-> "probe", client |-> client, pinned |-> working_path,
              replies |-> replies, kind |-> p.kind, cached |-> dimension,
              dim |-> p.dim, path |-> p.path]
  /\ UNCHANGED <<storeVars, cacheVars, lockVars, clock, task, histVars, codec,
                 api_auth_token, client>>

\* A call of is_available; slow: the bound elapses before get_embedding ends.
AvailableCall(replies, slow) ==
  LET o == is_available(replies, slow) IN
  /\ working_path' = o.path
  /\ firstOk' = IF o.ans = "true" /\ firstOk = None THEN o.path ELSE firstOk
  /\ last' = [op |-> "is_available", client |-> client, pinned |-> working_path,
              replies |-> replies, slow |-> slow, ans |-> o.ans, path |-> o.path]
  /\ UNCHANGED <<storeVars, cacheVars, lockVars, dimension, clock, task, histVars, codec,
                 api_auth_token, client>>

NextEmbed ==
  \/ SetClient
  \/ \E replies \in Replies \X Replies : EmbedCall(replies)
  \/ \E replies \in Replies \X Replies : ProbeCall(replies)
  \/ \E replies \in Replies \X Replies, slow \in BOOLEAN : AvailableCall(replies, slow)

SpecEmbed == InitEmbed /\ [][NextEmbed]_vars

\* ------------------------------------------- records of an earlier version
MaxLegacyWrites == 3
\* A record as an earlier version of the program stored it, without
\* first_written_at, and one as this version stores it.
LegacyPoint(k, withFirst) ==
  LET p == [schema_version |-> 1, text |-> Str("Old", 3), tags |-> << >>,
            source |-> "import", dedupe_key |-> k, external_id |-> None,
            written_at |-> 0]
  IN [vector |-> [len |-> EmbedDim, zero |-> FALSE],
      payload |-> IF withFirst THEN [first_written_at |-> 0] @@ p ELSE p]

\* The collection exists and holds the sentinel, a record of key k1 without
\* first_written_at and a record of key k2 with it.
InitLegacy ==
  /\ collection = TRUE
  /\ points = (MetaId :> SentinelPoint)
                @@ (KeyedId("k1") :> LegacyPoint("k1", FALSE))
                @@ (KeyedId("k2") :> LegacyPoint("k2", TRUE))
  /\ cacheVal = "None"
  /\ cacheFresh = FALSE
  /\ table = << >>
  /\ locked = [l \in LockIds |-> FALSE]
  /\ waiters = [l \in LockIds |-> << >>]
  /\ working_path = None
  /\ dimension = 0
  /\ clock = 0
  /\ task = [w \in Workers |-> IdleTask]
  /\ last = NoResp
  /\ firstNow = [k \in Keys |-> 0]
  /\ lastCommit = [k \in Keys |-> NoInput]
  /\ returned = {}
  /\ firstOk = None
  /\ codec = NoCodec
  /\ api_auth_token = ""
  /\ client = TRUE

\* One client that writes with a dedupe_key; the retrieve and the upsert may
\* meet a transport error.
NextLegacy ==
  \/ \E k \in Keys, in \in Inputs : StartStore(1, k, in, MaxLegacyWrites)
  \/ ExistsOk(1)
  \/ RetrieveOk(1)
  \/ RetrieveFail(1)
  \/ EmbedOk(1)
  \/ UpsertOk(1)
  \/ UpsertFail(1)

SpecLegacy == InitLegacy /\ [][NextLegacy]_vars

\* ----------------------------------------------------------------- batches
MaxBatch == 2
MaxItems == 2
IngestItems ==
  { [text |-> Str("short", 5), tags |-> <<"a">>, source |-> "cli", dedupe_key |-> None],
    [text |-> Str("edge", max_text_length), tags |-> << >>, source |-> "cli",
     dedupe_key |-> "k1"],
    [text |-> Str("long", max_text_length + 1), tags |-> << >>, source |-> "cli",
     dedupe_key |-> None] }
Batches == UNION {[1 .. n -> IngestItems] : n \in 1 .. MaxBatch}

NextIngest ==
  \/ \E batch \in Batches : StartIngest(1, batch, MaxItems)
  \/ IngestItem(1)
  \/ SoloSteps(1)

SpecIngest == Init /\ [][NextIngest]_vars

\* ------------------------------------------------------------------ cursors
\* Two store instances, each with its secret, and a client between them.
MaxCursorOffset == 11
Secrets == {"secret-a", "secret-b"}
Offsets ==
  {JNull, JStr("abc"), JStr("")} \cup {JInt(n) : n \in {0, 1, 9, 10, MaxCursorOffset}}

\* The text of a cursor with one member of its object replaced.
Replaced(cursor, field, value) ==
  LET obj == json_loads(cursor.text).pairs
  IN B64Encode(json_dumps([i \in DOMAIN obj |->
                             IF obj[i][1] = field THEN <<field, value>> ELSE obj[i]]))

\* The text of a cursor with one member of its object removed.
Dropped(cursor, field) ==
  B64Encode(json_dumps(SelectSeq(json_loads(cursor.text).pairs,
                                 LAMBDA pr : pr[1] # field)))

\* What a client may put in the place of the MAC.
ForgedMacs(cursor) ==
  {JStr("deadbeef"), JStrNonAscii("deadbeef"), JInt(5), JNull}
    \cup {HmacHex(sec, json_dumps(<< <<"offset", off>> >>)) :
            sec \in Secrets, off \in {JInt(0), JInt(1)}}

\* _encode_cursor of the instance with the given secret.
CursorEncode(secret, offset) ==
  /\ codec' = [pc |-> "encoded", secret |-> secret, offset |-> offset,
               cursor |-> EncodeCursor(secret, offset)]
  /\ UNCHANGED <<storeVars, cacheVars, lockVars, embVars, clock, task, last,
                 histVars, firstOk, api_auth_token, client>>

\* The client alters the cursor it holds.
CursorTamper ==
  /\ codec.pc = "encoded"
  /\ codec.cursor = EncodeCursor(codec.secret, codec.offset)
  /\ \E c \in {Replaced(codec.cursor, "offset", off) : off \in Offsets \cup {JFloat(1)}}
          \cup {Replaced(codec.cursor, "qh", mac) : mac \in ForgedMacs(codec.cursor)}
          \cup {Dropped(codec.cursor, "qh"), Dropped(codec.cursor, "offset"),
                NotBase64, B64Encode(<<Punct("{")>>),
                B64Encode(DumpValue(codec.offset))} :
       /\ c # codec.cursor
       /\ codec' = [codec EXCEPT !.cursor = c]
  /\ UNCHANGED <<storeVars, cacheVars, lockVars, embVars, clock, task, last,
                 histVars, firstOk, api_auth_token, client>>

\* _decode_cursor of the instance with the given secret, and what GET
\* /memories answers when list_memories decodes the cursor.
CursorDecode(secret) ==
  LET dec == DecodeCursor(secret, codec.cursor) IN
  /\ codec.pc = "encoded"
  /\ codec' = [pc |-> "decoded", secret |-> codec.secret, offset |-> codec.offset,
               cursor |-> codec.cursor, dsecret |-> secret, result |-> dec,
               status |-> IF dec.kind = "ok" THEN 200 ELSE ListFailure(dec.kind).status]
  /\ UNCHANGED <<storeVars, cacheVars, lockVars, embVars, clock, task, last,
                 histVars, firstOk, api_auth_token, client>>

NextCursor ==
  \/ \E secret \in Secrets, offset \in Offsets : CursorEncode(secret, offset)
  \/ CursorTamper
  \/ \E secret \in Secrets : CursorDecode(secret)

SpecCursor == Init /\ [][NextCursor]_vars

\* =================================================================== claims
IsSentinel(p) == "_meta" \in DOMAIN p.payload /\ p.payload._meta = TRUE
RecordsOf(k) ==
  {id \in DOMAIN points :
     ~IsSentinel(points[id]) /\ Get(points[id].payload, "dedupe_key", None) = k}

\* C1 (SpecRead): after any sequence of store_memory and delete_memory calls
\* the store holds at most one memory record per dedupe_key; every successful
\* write with key k returns the same id, the uuid5 of "v1:" + k; and no write
\* without a dedupe_key returns an id that a keyed write returns.
DedupeIdentity ==
  /\ \A k \in Keys : Cardinality(RecordsOf(k)) <= 1
  /\ \A p, q \in returned : (p[1] # None /\ p[1] = q[1]) => p[2] = q[2]
  /\ \A p \in returned : p[1] # None => p[2] = uuid5(<<"v1:", p[1]>>)
  /\ \A p, q \in returned : (p[1] = None /\ q[1] # None) => p[2] # q[2]

\* A second write with a key has committed over the record of the first.
DedupeIdentityWitness ==
  /\ last.op = "store" /\ last.error = None
  /\ last.key # None /\ last.existed
  /\ Cardinality(RecordsOf(last.key)) = 1

\* C2 (Spec): store_memory reports "deduped" if and only if a record with the
\* computed id existed before the write, and "random" otherwise; POST /memory
\* answers 201 exactly for "random" and 200 exactly for "deduped".
StrategyTellsExistence ==
  (last.op = "store" /\ last.error = None) =>
    /\ (last.id_strategy = "deduped") <=> last.existed
    /\ (last.id_strategy = "random") <=> ~last.existed
    /\ (last.status = 201) <=> (last.id_strategy = "random")
    /\ (last.status = 200) <=> (last.id_strategy = "deduped")

\* C3 (SpecRace): the first_written_at of the record of a key is the timestamp
\* of the earliest of the committed writes of that record, and every memory
\* record has first_written_at <= written_at.
FirstWrittenAtEarliest ==
  /\ \A k \in Keys : \A id \in RecordsOf(k) :
       points[id].payload.first_written_at = firstNow[k]
  /\ \A id \in DOMAIN points :
       ~IsSentinel(points[id]) =>
         points[id].payload.first_written_at <= points[id].payload.written_at

\* C4 (SpecRace): two store_memory calls with the same dedupe_key are never
\* both between the retrieve of the existing point and the end of the upsert.
MutualExclusion ==
  \A v, w \in Workers :
    (v # w /\ task[v].key # None /\ task[v].key = task[w].key)
      => ~(InCS(task[v]) /\ InCS(task[w]))

\* C5 (SpecRace): after concurrent successful writes with one dedupe_key the
\* record carries the text, tags, source and external_id of the write that
\* committed last and the smallest timestamp of those writes as first_written_at.
LastWriterEarliestTime ==
  \A k \in Keys : \A id \in RecordsOf(k) :
    LET p == points[id].payload IN
    /\ [text |-> p.text, tags |-> p.tags, source |-> p.source,
        external_id |-> p.external_id] = lastCommit[k]
    /\ p.first_written_at = firstNow[k]

\* C6 (SpecRead): no result of search and no page of list_memories, first or
\* reached through a cursor, contains a point whose payload has _meta == true.
ReadsHideSentinel ==
  /\ last.op = "search" =>
       /\ \A p \in last.hits : ~IsSentinel(p)
       /\ \A r \in last.results : r.id # MetaId
  /\ last.op = "list" =>
       /\ \A i \in DOMAIN last.hits : ~IsSentinel(last.hits[i])
       /\ \A i \in DOMAIN last.memories : last.memories[i].id # MetaId

\* A page reached through a cursor holds a record while the sentinel is stored.
ReadsHideSentinelWitness ==
  /\ last.op = "list" /\ last.status = 200
  /\ last.cursor # << >> /\ last.memories # << >>
  /\ MetaId \in DOMAIN points

\* C7 (SpecCursor): the decoder returns the offset of a cursor the encoder made
\* under the decoder's secret, and rejects every other cursor (altered offset or
\* MAC, other secret) with ValueError, which GET /memories answers with 400.
CursorIntegrity ==
  codec.pc = "decoded" =>
    IF codec.cursor = EncodeCursor(codec.dsecret, codec.offset)
    THEN codec.result = [kind |-> "ok", offset |-> codec.offset] /\ codec.status = 200
    ELSE codec.result = [kind |-> "ValueError"] /\ codec.status = 400

IsRead == last.op \in {"search", "list"}
EmptyAnswer ==
  /\ last.status = 200
  /\ last.op = "search" => (last.results = {} /\ last.sent = << >>)
  /\ last.op = "list" => (last.memories = << >> /\ last.next_cursor = << >>)

\* C8, as stated (SpecRead): whenever the collection does not exist,
\* list_memories returns ([], null), search returns [] without a request to the
\* embedder, and neither creates the collection.  Read in the claim's favour:
\* calls that met a transport error of the vector store are left out.
AbsentCollectionReads ==
  (IsRead /\ ~last.existed /\ last.error # "qdrant_unavailable")
    => (EmptyAnswer /\ ~last.after)

\* C8, amended (SpecRead): search and list_memories never create the
\* collection; and when it does not exist, the existence cache holds no fresh
\* positive entry and the vector store answers the existence check,
\* list_memories returns ([], null) and search returns [] without a request to
\* the embedder.
AbsentCollectionReadsChecked ==
  IsRead =>
    /\ last.after = last.existed
    /\ (~last.existed /\ ~last.cached /\ last.reachable) => EmptyAnswer

\* search ran against a missing collection with nothing fresh in the cache.
AbsentCollectionWitness ==
  /\ last.op = "search" /\ ~last.existed /\ ~last.cached /\ last.reachable
  /\ working_path # None

LongItems(batch) == {i \in DOMAIN batch : batch[i].text.len > max_text_length}
ErrorIndexes(errors) == {errors[j].index + 1 : j \in DOMAIN errors}

\* C9 (SpecIngest): every item of a batch is attempted whatever happened to the
\* items before it; succeeded + failed is the number of items; errors holds one
\* entry per failed item, with its index; an item longer than max_text_length
\* counts as failed and is never passed to store_memory.
IngestAccounting ==
  last.op = "ingest" =>
    LET n == Len(last.batch) IN
    /\ last.succeeded + last.failed = n
    /\ last.succeeded = Cardinality(last.stored)
    /\ Len(last.errors) = last.failed
    /\ Cardinality(ErrorIndexes(last.errors)) = Len(last.errors)
    /\ ErrorIndexes(last.errors) = (1 .. n) \ last.stored
    /\ {last.attempted[j] : j \in DOMAIN last.attempted} = (1 .. n) \ LongItems(last.batch)
    /\ \A i, j \in DOMAIN last.errors : i < j => last.errors[i].index < last.errors[j].index

\* A batch whose first item is too long and whose second item is stored.
IngestAccountingWitness ==
  /\ last.op = "ingest"
  /\ Len(last.batch) >= 2
  /\ 1 \in LongItems(last.batch)
  /\ 2 \in last.stored

\* C10 (Spec): once an embedding request has succeeded on a path, every embed
\* call that starts later sends its request to that path.
PinnedPathOnly ==
  \A w \in Workers :
    (firstOk # None /\ task[w].pc \in {"probe", "embed"} /\ ~task[w].edet)
      => task[w].epath = firstOk

DeleteFaults == {"none", "exists", "retrieve", "delete"}

\* C11 (SpecServe): when every request to the vector store is answered,
\* delete_memory(id) succeeds if and only if the collection exists and holds a
\* point with that id; on success that point is gone and every other point is
\* as before; when the collection is missing or the id is absent it fails with
\* NotFound (HTTP 404); a delete that does not succeed changes no point; and
\* after a success the id is absent, so that a second delete with no write in
\* between fails with NotFound.
DeleteContract ==
  [][\A id \in KnownIds, fault \in DeleteFaults :
       (last'.op = "delete" /\ Delete(id, fault)) =>
         LET found == collection /\ id \in DOMAIN points IN
         /\ fault = "none" => ((last'.status = 200) <=> found)
         /\ (fault = "none" /\ ~found)
              => (last'.status = 404 /\ last'.error = "collection_not_found")
         /\ last'.status = 200 =>
              /\ found
              /\ DOMAIN points' = DOMAIN points \ {id}
              /\ \A j \in DOMAIN points' : points'[j] = points[j]
         /\ last'.status # 200 => points' = points
         /\ collection' = collection
    ]_vars

\* A stored record was deleted while another record stayed in the collection.
DeleteContractWitness ==
  /\ last.op = "delete" /\ last.status = 200 /\ last.present
  /\ last.id # MetaId /\ last.id \notin DOMAIN points
  /\ \E j \in DOMAIN points : ~IsSentinel(points[j])

\* C12 (SpecDegraded): while the embedder is unreachable every store_memory
\* call fails with EmbeddingUnavailable (HTTP 503, embedding_unavailable),
\* list_memories answers 200 and delete_memory of an unknown id answers 404.
DegradedAnswers ==
  /\ last.op = "store" => (last.status = 503 /\ last.error = "embedding_unavailable")
  /\ last.op = "list" => last.status = 200
  /\ (last.op = "delete" /\ ~last.present) => last.status = 404

Tri == {"true", "false", "null"}

\* C13 (SpecLife): GET /health never fails: it reports qdrant and ollama each
\* as true, false or null, answers "ok" with 200 if and only if both are true,
\* "degraded" with 503 if and only if qdrant is true and ollama is not, and
\* "unavailable" with 503 otherwise.
HealthReport ==
  last.op = "health" =>
    /\ last.status \in {200, 503}
    /\ last.qdrant \in Tri /\ last.ollama \in Tri
    /\ (last.overall = "ok" /\ last.status = 200)
         <=> (last.qdrant = "true" /\ last.ollama = "true")
    /\ (last.overall = "degraded" /\ last.status = 503)
         <=> (last.qdrant = "true" /\ last.ollama # "true")
    /\ (last.overall = "unavailable" /\ last.status = 503)
         <=> (last.qdrant # "true")

\* C15 (SpecLife): a startup that finds the collection and reads it fails with
\* ModelMismatch, and exits before serving, if and only if the sentinel is
\* present with _meta true and a model, the embedder's dimension can be
\* probed, and the stored model or dim differs from the configured model or the
\* probed dimension; when the sentinel is absent or lacks _meta or model, or
\* the embedder cannot be probed, startup goes on and the service serves.
StartupVerdict ==
  (/\ last.op = "lifespan" /\ last.answered = "yes"
   /\ last.validation # "QdrantConnectionError"
   /\ task[1].pc \in {"serving", "exited"}) =>
    LET m == last.sentinel
        complete == last.has_sentinel /\ Get(m, "_meta", FALSE) /\ "model" \in DOMAIN m
        probed == last.probe = "vector"
        differs == m.model # embed_model \/ "dim" \notin DOMAIN m \/ m.dim # EmbedDim
    IN /\ (last.exit = "ModelMismatch") <=> (complete /\ probed /\ differs)
       /\ last.exit = "ModelMismatch" => task[1].pc = "exited"
       /\ (~complete \/ ~probed) => task[1].pc = "serving"

\* C20 (SpecLife): no operation of the core deletes the collection, and only
\* store_memory creates it.  A step that removes the collection changes
\* nothing of the process (it is not a step of the process), and a step that
\* creates it is the create_collection of a store_memory call; so the startup
\* checks, the health check, search, list_memories and delete_memory do neither.
CollectionLifecycle ==
  [][/\ (collection /\ ~collection')
          => UNCHANGED <<cacheVars, lockVars, embVars, clock, task, last>>
     /\ (~collection /\ collection')
          => \E w \in Workers :
               /\ task[w].op \in {"store", "ingest"}
               /\ task[w].pc = "create" /\ task'[w].pc = "sentinel"
               /\ last' = last
    ]_vars

\* The health check answered after a write had created the collection and
\* someone else had dropped it, and the collection is still absent.
CollectionLifecycleWitness ==
  /\ Serving /\ last.op = "health" /\ last.status = 503 /\ last.qdrant = "true"
  /\ ~collection /\ clock > 0

\* The header carries the configured token as a bearer token.
HasExactToken(h) == h.scheme = "bearer" /\ h.credentials = api_auth_token
GatedStep(h) ==
  \/ \E k \in {None, "k1"} : PostMemory(h, 1, k)
  \/ PostIngest(h, 1, AuthBatch)
  \/ \E how \in {"first", "none"} : PostSearch(h, how)
  \/ GetMemories(h)
  \/ \E id \in KnownIds : DeleteMemory(h, id)

\* C14 (SpecAuth): with a token configured, a request to /memory, /search,
\* /ingest, /memories or DELETE /memory/{id} that lacks the exact bearer token
\* is answered 401 and neither the store nor the embedder nor any handler is
\* touched, and a request that carries it is not answered 401; with no token
\* configured no request is answered 401; /health is never answered 401.
AuthGate ==
  [][/\ \A h \in Headers :
          GatedStep(h) =>
            IF api_auth_token # "" /\ ~HasExactToken(h)
            THEN /\ last'.op = "auth" /\ last'.status = 401
                 /\ UNCHANGED <<storeVars, cacheVars, lockVars, embVars, clock, task>>
            ELSE ~(last' # last /\ last'.op = "auth")
     /\ \A q \in {"answers", "fails"}, replies \in PingReplies :
          Health(q, replies, FALSE) => last'.op = "health"
    ]_vars

\* A request with a wrong token was turned away from a store that holds a record.
AuthGateWitness ==
  /\ api_auth_token # "" /\ last.op = "auth" /\ last.status = 401
  /\ \E id \in DOMAIN points : ~IsSentinel(points[id])

\* C16 (SpecServe): list_memories called with a cursor that fails decoding
\* fails with InvalidCursor (HTTP 400) and issues no scroll, whether or not
\* the collection exists.  Calls whose existence check met a transport error
\* are left out.
BadCursorRejected ==
  (/\ last.op = "list" /\ last.cursor # << >>
   /\ DecodeCursor(cursor_secret, last.cursor[1]).kind # "ok"
   /\ last.error # "qdrant_unavailable")
    => (last.status = 400 /\ last.error = "invalid_cursor" /\ last.hits = << >>)

RECURSIVE Walk(_, _, _)
\* The pages a client gets that lists with one limit and follows every cursor.
Walk(limit, cursor, fuel) ==
  IF fuel = 0 THEN << >>
  ELSE LET out == ListOutput(limit, cursor)
       IN <<out>> \o (IF out.next_cursor = << >> THEN << >>
                      ELSE Walk(limit, out.next_cursor, fuel - 1))

PagesOK(n) ==
  LET w == Walk(n, << >>, Cardinality(DOMAIN points) + 1)
      ids(i) == {w[i].ids[j] : j \in DOMAIN w[i].ids}
      upto(i) == UNION {ids(j) : j \in 1 .. i}
      records == {id \in DOMAIN points : ~IsSentinel(points[id])}
  IN \A i \in DOMAIN w :
       /\ Len(w[i].memories) <= n
       /\ \A j \in 1 .. (i - 1) : ids(j) \cap ids(i) = {}
       /\ upto(i) # records => w[i].next_cursor # << >>
       /\ (w[i].next_cursor = << >>) <=> (w[i].next_page_offset = JNull)

TransportErrorInvalidates ==
  [][(/\ last' # last
      /\ "error" \in DOMAIN last'
      /\ last'.error = "qdrant_unavailable")
       => (cacheVal' = "None" /\ ~CacheHit')]_vars

\* The cursors of ClientCursors that decode.
GoodCursors ==
  {c \in ClientCursors : c = << >> \/ DecodeCursor(cursor_secret, c[1]).kind = "ok"}

\* C19 (SpecServe): when the collection has been dropped while the existence
\* cache holds a fresh True, the next search or list_memories that the
\* store and the embedder answer returns an empty result (list: no memories
\* and no cursor) and the next delete_memory fails with NotFound (404); each
\* leaves the existence cache invalidated, and none surfaces a store error.
DropConverted ==
  [][(CacheHit /\ ~collection) =>
       /\ \A how \in {"first", "second"} :
            (last'.op = "search" /\ Search(MaxPage, TRUE, "none", how)) =>
              /\ last'.status = 200 /\ last'.error = None
              /\ last'.results = {}
              /\ cacheVal' = "None"
       /\ \A limit \in 1 .. MaxPage, cursor \in GoodCursors :
            (last'.op = "list" /\ List(limit, cursor, "none")) =>
              /\ last'.status = 200 /\ last'.error = None
              /\ last'.memories = << >> /\ last'.next_cursor = << >>
              /\ cacheVal' = "None"
       /\ \A id \in KnownIds :
            (last'.op = "delete" /\ Delete(id, "none")) =>
              /\ last'.status = 404
              /\ cacheVal' = "None"
    ]_vars

\* A delete found the cache true and the collection gone: it was answered 404
\* and the cache is invalidated.
DropConvertedWitness ==
  /\ last.op = "delete" /\ last.status = 404
  /\ last.existed = FALSE /\ ~collection
  /\ cacheVal = "None" /\ points = << >>
  /\ returned # {}

\* A search or list request was answered in this step.
ReadStep == last' # last /\ last'.op \in {"search", "list"}
\* The collection_exists call of this step (of a search, list or delete
\* request, or of a write) was answered by the vector store with "exists", or
\* this step completed the creation of the collection.
PositiveObservation ==
  \/ /\ task' = task /\ last'.op \in {"search", "list", "delete"}
     /\ ~CacheHit /\ collection /\ collection'
  \/ \E w \in Workers : task[w].pc = "exists" /\ task'[w].pc # "exists" /\ collection
  \/ \E w \in Workers : task[w].pc = "indexes" /\ task'[w].pc # "indexes"

\* C21 (SpecServe): collection_exists answers from the cache, without
\* contacting the store, only while the cache holds a positive entry younger
\* than the TTL; such an entry comes from a positive observation only and is
\* lost by an invalidation or by expiry; with a negative entry ("False"), an
\* invalidated one ("None") or an expired one the call contacts the store:
\* an unreachable store makes it fail, a reachable one is asked.
CacheAnswers ==
  [][/\ (CacheHit' /\ ~CacheHit) => PositiveObservation
     /\ ReadStep =>
          /\ last'.cached = CacheHit
          /\ (CacheHit /\ ~last'.reachable) => last'.error # "qdrant_unavailable"
          /\ (~CacheHit /\ ~last'.reachable) =>
               (last'.status = 503 /\ last'.error = "qdrant_unavailable"
                /\ cacheVal' = "None")
          /\ (~CacheHit /\ last'.reachable /\ ~collection) =>
               (cacheVal' = "False" /\ ~CacheHit')
     /\ \A w \in Workers :
          (task[w].pc = "idle" /\ task'[w].pc # "idle" /\ task'[w].op = "store") =>
            (task'[w].pc = "exists" <=> ~CacheHit)
    ]_vars

\* The TTL ran out on a positive entry, the store then could not be reached,
\* and the search that came next failed on its existence check.
CacheAnswersWitness ==
  /\ last.op = "search" /\ ~last.cached /\ ~last.reachable /\ last.existed
  /\ last.status = 503 /\ cacheVal = "None" /\ returned # {}

\* C22 (SpecServe): when the collection was removed while the existence cache
\* holds a fresh True, a store_memory call that fails because the collection
\* is missing (its upsert is refused) leaves the cache invalidated, so that
\* the next store_memory call asks the store, re-creates the collection and
\* succeeds before the TTL has run out.
MissingCollectionSelfCorrects ==
  [][\A w \in Workers :
       (/\ task[w].op = "store" /\ task[w].pc = "upsert"
        /\ ~collection /\ CacheHit
        /\ task'[w].pc = "idle")
         => (/\ ~CacheHit'
             /\ last'.status = 503)]_vars

\* In this step store_memory of w called get_or_create and went on to take
\* the mutex it got.
Caller(w) ==
  /\ task[w].pc \notin {"retrieve", "waiting"}
  /\ task'[w].pc \in {"retrieve", "waiting"}

\* C23 (SpecRace): get_or_create never removes a mutex that is held and never
\* waits (the table changes only in the step of the call, which returns in
\* that step); when it inserts a key while the oldest entry is held, eviction
\* stops there: the held entry moves to the end and the table is left over
\* capacity.
HeldNeverEvicted ==
  [][/\ table' # table => \E w \in Workers : Caller(w)
     /\ \A w \in Workers : Caller(w) =>
          /\ \A i \in DOMAIN table :
               locked[table[i].lock] => \E j \in DOMAIN table' : table'[j] = table[i]
          /\ (/\ task'[w].key \notin TableKeys(table)
              /\ Len(table) >= maxsize
              /\ locked[Head(table).lock])
               => /\ Len(table') = Len(table) + 1
                  /\ Len(table') > maxsize
                  /\ table'[Len(table')] = Head(table)
    ]_vars

\* The table is over capacity and every mutex in it is held.
HeldNeverEvictedWitness ==
  /\ Len(table) > maxsize
  /\ \A i \in DOMAIN table : locked[table[i].lock]

SetOnceFields ==
  [][/\ working_path # None => working_path' = working_path
     /\ dimension # 0 =>
          /\ dimension' = dimension
          /\ \A w \in Workers : task[w].pc # "probe" => task'[w].pc # "probe"
    ]_vars

\* The answers that carry a vector.
Vectors == {"embeddings", "embedding"}

\* C26 (SpecEmbed): with no path pinned, an embed call sends its first request
\* to the configured path and, if that fails, one to the other known path; it
\* pins the first path that answers with a vector and returns the vector; if
\* both fail it raises EmbeddingUnavailable and leaves no path pinned.
DetectionOrder ==
  (last.op = "embed" /\ last.client /\ last.pinned = None) =>
    IF last.replies[1] \in Vectors
    THEN /\ last.sent = <<default_embed_path>>
         /\ last.kind = "vector" /\ last.path = default_embed_path
    ELSE IF last.replies[2] \in Vectors
    THEN /\ last.sent = <<default_embed_path, Fallback>>
         /\ last.kind = "vector" /\ last.path = Fallback
    ELSE /\ last.sent = <<default_embed_path, Fallback>>
         /\ last.kind = "EmbeddingUnavailable" /\ last.path = None

\* C27 (SpecEmbed): an embed call that does not return a vector raises
\* EmbeddingUnavailable and nothing else, whether the service is unreachable,
\* answers with a status that is no success or with a body of no accepted
\* shape, or the client was never initialised.
EmbedFailureKind ==
  (last.op \in {"embed", "probe"} /\ last.kind # "vector")
    => last.kind = "EmbeddingUnavailable"

\* C28 (SpecEmbed): is_available never raises: it returns true when an embed
\* succeeds within the bound, null when the bound elapses first, and false
\* when no client is set or the embed fails.
AvailableNeverRaises ==
  last.op = "is_available" =>
    LET succeeds == IF last.pinned # None THEN last.replies[1] \in Vectors
                    ELSE last.replies[1] \in Vectors \/ last.replies[2] \in Vectors
    IN last.ans = (IF ~last.client THEN "false"
                   ELSE IF last.slow THEN "null"
                   ELSE IF succeeds THEN "true" ELSE "false")

\* C29 (SpecCursor): decoding any cursor string either returns the offset or
\* raises ValueError (InvalidCursor) and nothing else, so that GET /memories
\* answers 200 or 400 and never 500.
DecodeTotal ==
  codec.pc = "decoded" =>
    /\ codec.result.kind \in {"ok", "ValueError"}
    /\ codec.status \in {200, 400}

\* C30 (SpecLegacy): in a keyed write the retrieve step never aborts the
\* write: when it meets a transport error the write goes on with
\* first_written_at = now, as if no record existed; when the existing record
\* has no first_written_at field the write goes on with first_written_at = now
\* too; and the record stored carries the first_written_at so decided.
RetrieveNeverAborts ==
  [][\A w \in Workers :
       /\ (task[w].pc = "retrieve" /\ task'[w] # task[w]) =>
            /\ task'[w].pc = "embed"
            /\ task'[w].now = task[w].now
            /\ RetrieveFail(w) => task'[w].fwa = task[w].now
            /\ (/\ RetrieveOk(w)
                /\ KeyedId(task[w].key) \in DOMAIN points
                /\ "first_written_at" \notin DOMAIN points[KeyedId(task[w].key)].payload)
                 => task'[w].fwa = task[w].now
       /\ (task[w].pc = "upsert" /\ task[w].key # None /\ UpsertOk(w)) =>
            /\ points'[KeyedId(task[w].key)].payload.first_written_at = task[w].fwa
            /\ points'[KeyedId(task[w].key)].payload.written_at = task[w].now
    ]_vars

\* The first write of this process replaced the record that had no
\* first_written_at: the new record has first_written_at = written_at = now.
RetrieveNeverAbortsWitness ==
  /\ last.op = "store" /\ last.status = 200 /\ last.key = "k1" /\ last.existed
  /\ clock = 1
  /\ points[KeyedId("k1")].payload.first_written_at = 1
  /\ points[KeyedId("k1")].payload.written_at = 1

\* The step of w is the successful upsert of a keyed write over a record that
\* is in the collection.
Overwrites(w) ==
  /\ task[w].pc = "upsert" /\ task[w].op = "store" /\ task[w].key # None
  /\ KeyedId(task[w].key) \in DOMAIN points
  /\ UpsertOk(w)

\* What the overwrite leaves: the fields of the new write under the old id,
\* every other record as it was.
Replaced31(w) ==
  LET t == task[w]
      id == KeyedId(t.key)
      new == points'[id].payload
  IN /\ DOMAIN points' = DOMAIN points
     /\ \A j \in DOMAIN points \ {id} : points'[j] = points[j]
     /\ new.text = t.input.text /\ new.tags = t.input.tags
     /\ new.source = t.input.source /\ new.external_id = t.input.external_id
     /\ new.written_at = t.now /\ new.dedupe_key = t.key
     /\ last'.id = id

\* C31, as stated (SpecLegacy): a successful keyed write over an existing
\* record replaces text, tags, source, external_id and written_at by those of
\* the new write, keeps the old record's first_written_at and id, and leaves
\* every other record unchanged.
OverwriteKeepsFirst ==
  [][\A w \in Workers : Overwrites(w) =>
       /\ Replaced31(w)
       /\ "first_written_at" \in DOMAIN points[KeyedId(task[w].key)].payload =>
            points'[KeyedId(task[w].key)].payload.first_written_at
              = points[KeyedId(task[w].key)].payload.first_written_at
    ]_vars

\* C31, amended (SpecLegacy): a successful keyed write over an existing record
\* replaces text, tags, source, external_id and written_at by those of the new
\* write, keeps the id, and leaves every other record unchanged; it keeps the
\* old record's first_written_at when its retrieve step returned the record
\* and the record carries the field, and stores first_written_at = written_at
\* when the retrieve step failed or the record has no such field.
OverwriteKeepsRetrievedFirst ==
  [][\A w \in Workers :
       /\ Overwrites(w) =>
            /\ Replaced31(w)
            /\ points'[KeyedId(task[w].key)].payload.first_written_at = task[w].fwa
       /\ (task[w].pc = "retrieve" /\ task'[w].pc = "embed") =>
            LET id == KeyedId(task[w].key)
                kept == /\ id \in DOMAIN points
                        /\ "first_written_at" \in DOMAIN points[id].payload
                        /\ task'[w].fwa = points[id].payload.first_written_at
            IN /\ kept \/ task'[w].fwa = task[w].now
               /\ (RetrieveOk(w) /\ id \in DOMAIN points
                   /\ "first_written_at" \in DOMAIN points[id].payload) => kept
               /\ RetrieveFail(w) => task'[w].fwa = task[w].now
    ]_vars

\* The record of k2 was overwritten: new text and time, old first_written_at.
OverwriteKeepsRetrievedFirstWitness ==
  /\ last.op = "store" /\ last.status = 200 /\ last.key = "k2" /\ last.existed
  /\ points[KeyedId("k2")].payload.first_written_at = 0
  /\ points[KeyedId("k2")].payload.written_at = clock /\ clock > 0
  /\ points[KeyedId("k2")].payload.text # Str("Old", 3)
  /\ points[KeyedId("k1")] = LegacyPoint("k1", FALSE)

\* C32 (SpecServe): a successful write without dedupe_key adds exactly one
\* record, under an id that was not in the store, with first_written_at =
\* written_at and dedupe_key null, and changes no existing record; so n such
\* writes add n distinct records, also when their texts are equal.
UnkeyedAddsOne ==
  [][\A w \in Workers :
       (/\ task[w].pc = "upsert" /\ task[w].op = "store" /\ task[w].key = None
        /\ UpsertOk(w))
         => \E id \in DOMAIN points' \ DOMAIN points :
              /\ DOMAIN points' = DOMAIN points \cup {id}
              /\ \A j \in DOMAIN points : points'[j] = points[j]
              /\ points'[id].payload.first_written_at = task[w].now
              /\ points'[id].payload.written_at = task[w].now
              /\ points'[id].payload.dedupe_key = None
              /\ points'[id].payload.text = task[w].input.text
              /\ last'.id = id /\ last'.status = 201 /\ last'.id_strategy = "random"
    ]_vars

\* Two writes without a key and with the same text left two records.
UnkeyedAddsOneWitness ==
  \E a, b \in DOMAIN points :
    /\ a # b
    /\ ~IsSentinel(points[a]) /\ ~IsSentinel(points[b])
    /\ points[a].payload.dedupe_key = None /\ points[b].payload.dedupe_key = None
    /\ points[a].payload.text = points[b].payload.text
    /\ last.op = "store" /\ last.status = 201

\* C33 (SpecRestart): the first write into a missing collection probes the
\* dimension (or takes the cached one), creates the collection, writes the
\* sentinel with _meta true, the configured model and that dimension, and,
\* whatever becomes of the payload indexes, sets the existence cache and goes
\* on with the write; at a later start of the process, validate_model accepts
\* a collection so created whenever the embedder answers the probe.
CreationThenValidation ==
  [][/\ \A w \in Workers :
          /\ (task[w].pc = "exists" /\ ~collection /\ task'[w].pc \notin {"exists", "idle"})
               => task'[w].pc = (IF dimension = 0 THEN "probe" ELSE "create")
          /\ (task[w].pc = "probe" /\ task'[w].pc \notin {"probe", "idle"})
               => (task'[w].pc = "create" /\ dimension' = EmbedDim)
          /\ (task[w].pc = "create" /\ task'[w].pc \notin {"create", "idle"})
               => (task'[w].pc = "sentinel" /\ ~collection /\ collection'
                   /\ points' = << >>)
          /\ (task[w].pc = "sentinel" /\ task'[w].pc \notin {"sentinel", "idle"})
               => /\ task'[w].pc = "indexes"
                  /\ dimension # 0
                  /\ points'[MetaId].payload
                       = [schema_version |-> 1, _meta |-> TRUE, model |-> embed_model,
                          dim |-> dimension]
          /\ (task[w].pc = "indexes" /\ task'[w] # task[w] /\ task'[1].pc # "startup")
               => (CacheHit' /\ task'[w].pc \in {"embed", "retrieve", "waiting"})
     /\ (/\ task[1].pc = "startup" /\ task'[1].pc # "startup"
         /\ collection /\ MetaId \in DOMAIN points
         /\ last'.answered = "yes" /\ last'.probe = "vector")
          => (last'.validation = "ok" /\ task'[1].pc = "ping")
    ]_vars

\* A process that started after a write had created the collection validated
\* the sentinel and found it in order.
CreationThenValidationWitness ==
  /\ last.op = "lifespan" /\ last.existed /\ last.has_sentinel
  /\ last.validation = "ok" /\ last.probe = "vector"
  /\ returned # {}
  /\ task[1].pc = "ping"

\* C34 (SpecRace): a keyed write waits only at a mutex that writers of its own
\* key hold or wait for: every task that refers to the mutex of a waiting
\* writer has the writer's key, and a waiter that was not woken has a writer
\* of its key in the critical section or ahead of it in the queue.
DifferentKeysUnordered ==
  \A w \in Workers :
    task[w].pc = "waiting" =>
      /\ \A v \in Workers : task[v].lock = task[w].lock => task[v].key = task[w].key
      /\ ~task[w].woken =>
           \E v \in Workers \ {w} :
             /\ task[v].key = task[w].key /\ task[v].lock = task[w].lock
             /\ InCS(task[v]) \/ task[v].pc = "waiting"

\* Two writers with different keys are in their critical sections while a
\* third waits for one of them.
DifferentKeysUnorderedWitness ==
  \E w, v, u \in Workers :
    /\ InCS(task[w]) /\ InCS(task[v]) /\ task[w].key # task[v].key
    /\ task[u].pc = "waiting" /\ task[u].key = task[w].key

\* C35 (Spec): whenever the collection exists and no ensure_collection is
\* between create_collection and the upsert of the sentinel, the collection
\* holds the sentinel with the model and the dimension it was created under.
CollectionHasSentinel ==
  (collection /\ \A w \in Workers : task[w].pc # "sentinel")
    => /\ MetaId \in DOMAIN points
       /\ points[MetaId].payload.model = embed_model
       /\ points[MetaId].payload.dim = EmbedDim

\* C36 (SpecFirst): with the embedder and the vector store healthy, every
\* store_memory call succeeds, also those that run while another call is
\* creating the collection, and the sentinel is written once.
FirstWritesSucceed ==
  [][/\ last'.op = "store" => last'.status \in {200, 201}
     /\ \A w \in Workers :
          (task[w].pc = "sentinel" /\ task'[w].pc = "indexes")
            => MetaId \notin DOMAIN points]_vars

\* C37 (SpecRead): no call of store_memory, search, list_memories or
\* delete_memory, whatever id it names, removes the sentinel from the
\* collection or changes it.
SentinelStays ==
  [][(collection /\ MetaId \in DOMAIN points)
       => (MetaId \in DOMAIN points' /\ points'[MetaId] = points[MetaId])]_vars

\* The memory records of the store: every point but the sentinel.
Records(f) == [i \in DOMAIN f \ {MetaId} |-> f[i]]

\* The step in which the store_memory call of w ends in an error.
Fails(w) ==
  /\ task[w].op = "store" /\ task[w].pc # "idle" /\ task'[w].pc = "idle"
  /\ last'.op = "store" /\ last'.status = 503

\* C38 (Spec): the memory records change only in the step of an upsert that
\* succeeds, so a store_memory call that fails, at whichever step, leaves them
\* as they were; the failing call leaves its mutex free (handed to its first
\* waiter, if any), and no mutex is held but by a writer in its critical
\* section.
FailureLeavesNoTrace ==
  [][/\ Records(points') # Records(points)
          => \E w \in Workers : task[w].pc = "upsert" /\ task'[w].pc = "idle"
                                  /\ last'.status \in {200, 201}
     /\ \A w \in Workers :
          Fails(w) =>
            /\ points' = points
            /\ InCS(task[w]) =>
                 /\ ~locked'[task[w].lock]
                 /\ waiters[task[w].lock] # << >>
                      => task'[Head(waiters[task[w].lock])].woken
            /\ \A l \in LockIds :
                 locked'[l] => \E v \in Workers : InCS(task'[v]) /\ task'[v].lock = l
    ]_vars

\* A keyed write failed inside its critical section over a stored record of
\* its key, and the writer that waited behind it has been woken.
FailureLeavesNoTraceWitness ==
  /\ last.op = "store" /\ last.status = 503 /\ last.key \in Keys
  /\ KeyedId(last.key) \in DOMAIN points
  /\ \E v \in Workers :
       /\ task[v].pc = "waiting" /\ task[v].woken /\ task[v].key = last.key
       /\ ~locked[task[v].lock]

\* C40 (SpecRace): a keyed write that replaces the record of its key stores a
\* written_at that is not earlier than the one it replaces.
WrittenAtMonotone ==
  [][\A w \in Workers :
       Overwrites(w)
         => points'[KeyedId(task[w].key)].payload.written_at
              >= points[KeyedId(task[w].key)].payload.written_at]_vars

\* C39 (SpecLive): if every request to the embedder and to the vector store
\* returns or fails, every store_memory call that waits for the mutex of its
\* key enters its critical section, and every store_memory call completes.
WritersProgress ==
  \A w \in Racers :
    /\ (task[w].pc = "waiting") ~> InCS(task[w])
    /\ (task[w].pc # "idle") ~> (task[w].pc = "idle")

\* A writer that waited is in its critical section with a mutex that the lock
\* table dropped while the writer was woken, next to the writer of another key.
WritersProgressWitness ==
  \E w, v \in Racers :
    /\ InCS(task[w])
    /\ \A i \in DOMAIN table : table[i].lock # task[w].lock
    /\ InCS(task[v]) /\ task[v].key # task[w].key

====
